---- MODULE Spec2Model ----
(***************************************************************************)
(* Context Window Manager of Roo-Code (core/context/context-management).   *)
(* A state machine over the caller's raw conversation history, the live    *)
(* edit log (contextHistoryUpdates), the persisted copy of that log and    *)
(* the result of the last call.                                            *)
(*                                                                         *)
(* Texts are sequences of atoms.  An atom is one lexical unit of a block   *)
(* text: a word, a <file_content path="p">...</file_content> mention, a    *)
(* "[read_file for 'p'] Result:" header, or one of the two canonical       *)
(* notices.  The tokenizer counts atoms.  Message and block indices are    *)
(* zero-based in the edit log, as in the source; sequences are one-based.  *)
(***************************************************************************)
EXTENDS Integers, Sequences, FiniteSets, TLC

VARIABLES
    rawApiConversationHistory,  \* the caller's raw history (append-only)
    contextHistoryUpdates,      \* ContextManager.contextHistoryUpdates
    currentModelInfo,           \* ContextManager.currentModelInfo
    truncationPercentage,       \* ContextManager.truncationPercentage, <<num, den>>
    disk,                       \* the persisted context history file
    now,                        \* last reading of Date.now()
    calls,                      \* number of process calls made so far
    result,                     \* what the last call returned
    call,                       \* inputs and intermediate values of the last call
    checkpoints,                \* the live log at the end of each instant 0..now
    inflight                    \* the calls in flight and the one holding the thread

vars == <<rawApiConversationHistory, contextHistoryUpdates, currentModelInfo,
          truncationPercentage, disk, now, calls, result, call, checkpoints,
          inflight>>

----------------------------------------------------------------------------
(* Bounds of the model *)

MaxLen == 5        \* longest raw history with rich content
MaxLongLen == 12   \* longest raw history of plain messages
MaxCalls == 2      \* process calls per behaviour
MaxApplyLen == 2   \* longest history a persisted log is applied to
MaxUpdates == 2    \* longest update list of a persisted log
MaxBlockIndex == 2 \* largest block key of a persisted log
MaxWindowOffset == 2 \* windows this far from every policy boundary

(* Program constants *)

DefaultReservedResponseTokens == 1000
DefaultTokenBuffer == 500
DEFAULT_CONTEXT_WINDOW == 128000
DEFAULT_BUFFER == 30000
ImageTokens == 1500
ToolOverhead == 20
startIndexToConsider == 2
firstAssistantMessageIndex == 1

----------------------------------------------------------------------------
(* Texts *)

Paths == {"a", "b"}

contextTruncationNotice == "[trunc]"
duplicateFileReadNotice == "[dup]"

\* "[read_file for 'p'] Result:"
ToolHeader(p) == IF p = "a" THEN "hdr:a" ELSE "hdr:b"
\* <file_content path="p">CONTENT</file_content>
Mention(p) == IF p = "a" THEN "fc:a" ELSE "fc:b"
\* <file_content path="p">[dup]</file_content>
MentionReplacement(p) == IF p = "a" THEN "fcdup:a" ELSE "fcdup:b"

\* text.match(/^\[read_file for '([^']+)'\] Result:$/)
IsToolHeader(text) == Len(text) = 1 /\ \E p \in Paths : text[1] = ToolHeader(p)
ToolHeaderPath(text) == CHOOSE p \in Paths : text[1] = ToolHeader(p)

\* one match of /<file_content path="([^"]*)">([\s\S]*?)<\/file_content>/g
IsMention(atom) == \E p \in Paths : atom \in {Mention(p), MentionReplacement(p)}
MentionPath(atom) == CHOOSE p \in Paths : atom \in {Mention(p), MentionReplacement(p)}

\* block.text.startsWith(notice)
StartsWith(text, notice) == Len(text) >= 1 /\ text[1] = notice

\* currentText.replace(fullMatch, replacement): the first occurrence only
RECURSIVE ReplaceFirst(_, _, _)
ReplaceFirst(text, fullMatch, replacement) ==
    IF text = <<>> THEN <<>>
    ELSE IF Head(text) = fullMatch THEN <<replacement>> \o Tail(text)
    ELSE <<Head(text)>> \o ReplaceFirst(Tail(text), fullMatch, replacement)

\* the tokenizer supplied to the manager: a mention with its file content
\* costs three tokens, every other atom one
AtomTokens(atom) == IF \E p \in Paths : atom = Mention(p) THEN 3 ELSE 1

RECURSIVE tokenizer(_)
tokenizer(text) ==
    IF text = <<>> THEN 0 ELSE AtomTokens(Head(text)) + tokenizer(Tail(text))

Last(s) == s[Len(s)]

----------------------------------------------------------------------------
(* Messages *)

TextBlock(text) == [type |-> "text", text |-> text]
ImageBlock == [type |-> "image", text |-> <<>>]
Message(role, content) == [role |-> role, content |-> content]

UserMessages ==
    { Message("user", <<TextBlock(<<"w">>)>>),
      Message("user", <<TextBlock(<<"w", Mention("a"), Mention("a")>>)>>),
      Message("user", <<TextBlock(<<ToolHeader("a")>>), TextBlock(<<"x", "x">>)>>) }

AssistantMessages ==
    { Message("assistant", <<TextBlock(<<"ok">>)>>),
      Message("assistant", <<ImageBlock, TextBlock(<<"ok">>)>>) }

\* "User message k" / "Assistant response k": the message at position i of
\* a history of plain messages, each with its own text
Numeral(i) ==
    <<"0", "1", "2", "3", "4", "5", "6", "7", "8", "9", "10", "11", "12", "13",
      "14", "15">>[i + 1]
PlainMessage(i) ==
    IF i % 2 = 0 THEN Message("user", <<TextBlock(<<"w", Numeral(i)>>)>>)
    ELSE Message("assistant", <<TextBlock(<<"ok", Numeral(i)>>)>>)
createLongHistory(n) == [i \in 1..n |-> PlainMessage(i - 1)]

----------------------------------------------------------------------------
(* Edit log: message index -> [editType, blocks: block index -> edits] *)

NoMetadata == [originalPath |-> "", replacedMention |-> FALSE]

\* ContextUpdate = [timestamp, updateType, content, metadata?]; content is a
\* string (isString) or null
ContextUpdate(timestamp, updateType, isString, content, metadata) ==
    [timestamp |-> timestamp, updateType |-> updateType, isString |-> isString,
     content |-> content, metadata |-> metadata]

EmptyHistoryUpdates == [i \in {} |-> [editType |-> "user", blocks |-> <<>>]]
EmptyBlocks == [b \in {} |-> <<>>]

\* obj[key] = value on a JavaScript object with numeric keys
SetKey(obj, key, value) ==
    [k \in DOMAIN obj \cup {key} |-> IF k = key THEN value ELSE obj[k]]

\* updatedModifications[messageIndex].blocks[blockIndex].push(update), after
\* the block list was created when missing
PushUpdate(mods, messageIndex, blockIndex, update) ==
    LET entry == mods[messageIndex]
        old == IF blockIndex \in DOMAIN entry.blocks
               THEN entry.blocks[blockIndex] ELSE <<>>
    IN  SetKey(mods, messageIndex,
               [entry EXCEPT !.blocks = SetKey(@, blockIndex, Append(old, update))])

----------------------------------------------------------------------------
(* calculateTokens *)

BlockTokens(block) ==
    IF block.type = "text" THEN tokenizer(block.text)
    ELSE IF block.type = "image" THEN ImageTokens
    ELSE IF block.type = "tool_use" THEN tokenizer(block.text) + 1 + ToolOverhead
    ELSE IF block.type = "tool_result" THEN tokenizer(block.text) + ToolOverhead
    ELSE 0

RECURSIVE SumBlocks(_)
SumBlocks(content) ==
    IF content = <<>> THEN 0 ELSE BlockTokens(Head(content)) + SumBlocks(Tail(content))

RECURSIVE calculateTokens(_)
calculateTokens(history) ==
    IF history = <<>> THEN 0
    ELSE SumBlocks(Head(history).content) + calculateTokens(Tail(history))

----------------------------------------------------------------------------
(* Budget oracle *)

Max(x, y) == IF x >= y THEN x ELSE y
Min(x, y) == IF x <= y THEN x ELSE y

\* modelInfo is [kind, contextWindow]; kind is "undefined", "null" or "object"
ContextWindowOf(modelInfo) ==
    IF modelInfo.kind = "object" /\ modelInfo.contextWindow # 0
    THEN modelInfo.contextWindow ELSE DEFAULT_CONTEXT_WINDOW

\* a variant whose default branch subtracts the default buffer
maxAllowedSizeTimes10DefaultBuffer(contextWindow) ==
    IF contextWindow = 64000 THEN 10 * (contextWindow - 27000)
    ELSE IF contextWindow = 128000 THEN 10 * (contextWindow - DEFAULT_BUFFER)
    ELSE IF contextWindow = 200000 THEN 10 * (contextWindow - 40000)
    ELSE LET percentageBasedBuffer == 2 * contextWindow
             fixedBuffer == 10 * DEFAULT_BUFFER
         IN  Max(Max(10 * contextWindow - Max(percentageBasedBuffer, fixedBuffer),
                     5 * contextWindow), 10 * 1000)

\* maxAllowedSize in tenths of a token, so that contextWindow * 0.2 and
\* contextWindow / 2 are exact for every integer window
maxAllowedSizeTimes10(contextWindow) ==
    IF contextWindow = 64000 THEN 10 * (contextWindow - 27000)
    ELSE IF contextWindow = 128000 THEN 10 * (contextWindow - DEFAULT_BUFFER)
    ELSE IF contextWindow = 200000 THEN 10 * (contextWindow - 40000)
    ELSE LET percentageBasedBuffer == 2 * contextWindow
             fixedBuffer == 10 * 40000
         IN  Max(Max(10 * contextWindow - Max(percentageBasedBuffer, fixedBuffer),
                     5 * contextWindow), 10 * 1000)

\* maxAllowedSize is the whole part; the windows the calls below use are
\* multiples of ten, for which it is the exact value
getContextWindowInfo(modelInfo) ==
    LET contextWindow == ContextWindowOf(modelInfo)
    IN  [contextWindow |-> contextWindow,
         maxAllowedSize |-> maxAllowedSizeTimes10(contextWindow) \div 10,
         maxAllowedSizeTimes10 |-> maxAllowedSizeTimes10(contextWindow)]

----------------------------------------------------------------------------
(* Edit applier *)

\* a variant that hands back the object it was given
sameObject(value) == [shared |-> TRUE, value |-> value]

\* cloneDeep(value): a copy that shares nothing with the original
cloneDeep(value) == [shared |-> FALSE, value |-> value]

\* what the caller's array holds once the applier has written the block texts
\* of updatedHistory: its own messages, unless updatedHistory shares them
CallerHistoryAfter(rawHistory, updatedHistory) ==
    IF cloneDeep(rawHistory).shared THEN updatedHistory ELSE rawHistory

\* a variant that prepends the notice without looking at the text
ApplyLatestUpdatePrepending(block, latestUpdate) ==
    IF latestUpdate.updateType = "replace_content"
    THEN IF block.type = "text" /\ latestUpdate.isString
         THEN [block EXCEPT !.text = latestUpdate.content]
         ELSE block
    ELSE IF latestUpdate.updateType = "add_truncation_notice"
    THEN IF block.type = "text"
         THEN [block EXCEPT !.text = <<contextTruncationNotice>> \o @]
         ELSE block
    ELSE block

\* a variant that writes a replacement without testing the payload type
ApplyLatestUpdateAnyPayload(block, latestUpdate) ==
    IF latestUpdate.updateType = "replace_content"
    THEN IF block.type = "text"
         THEN [block EXCEPT !.text = latestUpdate.content]
         ELSE block
    ELSE IF latestUpdate.updateType = "add_truncation_notice"
    THEN IF block.type = "text" /\ ~StartsWith(block.text, contextTruncationNotice)
         THEN [block EXCEPT !.text = <<contextTruncationNotice>> \o @]
         ELSE block
    ELSE block

\* the latest update of one block list applied to one block
ApplyLatestUpdate(block, latestUpdate) ==
    IF latestUpdate.updateType = "replace_content"
    THEN IF block.type = "text" /\ latestUpdate.isString
         THEN [block EXCEPT !.text = latestUpdate.content]
         ELSE block
    ELSE IF latestUpdate.updateType = "add_truncation_notice"
    THEN IF block.type = "text" /\ ~StartsWith(block.text, contextTruncationNotice)
         THEN [block EXCEPT !.text = <<contextTruncationNotice>> \o @]
         ELSE block
    ELSE block

\* a variant that reads the earliest update of a block list
earliestUpdate(blockUpdates) == Head(blockUpdates)

\* blockUpdates[blockUpdates.length - 1]
latestUpdate(blockUpdates) == Last(blockUpdates)

applyModificationsToHistory(history, modifications) ==
    [m \in 1..Len(history) |->
        IF (m - 1) \notin DOMAIN modifications THEN history[m]
        ELSE LET blocks == modifications[m - 1].blocks
             IN  [history[m] EXCEPT !.content =
                    [b \in 1..Len(@) |->
                        IF (b - 1) \in DOMAIN blocks /\ Len(blocks[b - 1]) > 0
                        THEN ApplyLatestUpdate(@[b], latestUpdate(blocks[b - 1]))
                        ELSE @[b]]]]

\* the same projection, reading the instance's live log
applyContextHistoryUpdates(rawHistory) ==
    [m \in 1..Len(rawHistory) |->
        IF (m - 1) \notin DOMAIN contextHistoryUpdates THEN rawHistory[m]
        ELSE LET blocks == contextHistoryUpdates[m - 1].blocks
             IN  [rawHistory[m] EXCEPT !.content =
                    [b \in 1..Len(@) |->
                        IF (b - 1) \in DOMAIN blocks /\ Len(blocks[b - 1]) > 0
                        THEN ApplyLatestUpdate(@[b], latestUpdate(blocks[b - 1]))
                        ELSE @[b]]]]

----------------------------------------------------------------------------
(* Duplicate elider *)

FileReadOccurrence(messageIndex, blockIndex, filePath, fullMatch) ==
    [messageIndex |-> messageIndex, blockIndex |-> blockIndex,
     filePath |-> filePath, fullMatch |-> fullMatch]

\* Case 2: every <file_content> match of one text, in order
RECURSIVE MentionOccurrences(_, _, _)
MentionOccurrences(text, messageIndex, blockIndex) ==
    IF text = <<>> THEN <<>>
    ELSE (IF IsMention(Head(text))
          THEN <<FileReadOccurrence(messageIndex, blockIndex,
                                    MentionPath(Head(text)), Head(text))>>
          ELSE <<>>)
         \o MentionOccurrences(Tail(text), messageIndex, blockIndex)

\* Case 1 then case 2 for the block at blockIndex of one message
BlockOccurrences(message, messageIndex, blockIndex) ==
    LET block == message.content[blockIndex + 1]
        toolRead ==
            IF /\ blockIndex = 0
               /\ block.type = "text"
               /\ IsToolHeader(block.text)
               /\ Len(message.content) > blockIndex + 1
               /\ message.content[blockIndex + 2].type = "text"
            THEN <<FileReadOccurrence(messageIndex, blockIndex + 1,
                                      ToolHeaderPath(block.text), "")>>
            ELSE <<>>
        mentions ==
            IF block.type = "text"
            THEN MentionOccurrences(block.text, messageIndex, blockIndex)
            ELSE <<>>
    IN  toolRead \o mentions

RECURSIVE MessageOccurrences(_, _, _)
MessageOccurrences(message, messageIndex, blockIndex) ==
    IF blockIndex >= Len(message.content) THEN <<>>
    ELSE BlockOccurrences(message, messageIndex, blockIndex)
         \o MessageOccurrences(message, messageIndex, blockIndex + 1)

RECURSIVE ScanFrom(_, _)
ScanFrom(history, messageIndex) ==
    IF messageIndex >= Len(history) THEN <<>>
    ELSE (IF history[messageIndex + 1].role = "user"
          THEN MessageOccurrences(history[messageIndex + 1], messageIndex, 0)
          ELSE <<>>)
         \o ScanFrom(history, messageIndex + 1)

\* the keys of the fileReads map, in insertion order
RECURSIVE PathOrder(_, _)
PathOrder(occurrences, seen) ==
    IF occurrences = <<>> THEN <<>>
    ELSE IF Head(occurrences).filePath \in seen
         THEN PathOrder(Tail(occurrences), seen)
         ELSE <<Head(occurrences).filePath>>
              \o PathOrder(Tail(occurrences), seen \cup {Head(occurrences).filePath})

\* fileReads.get(filePath)
OccurrencesOf(occurrences, filePath) ==
    SelectSeq(occurrences, LAMBDA o : o.filePath = filePath)

\* the map returned by findDuplicateFileReads, as the sequence of its values in
\* key insertion order
findDuplicateFileReads(history) ==
    LET occurrences == ScanFrom(history, 0)
        paths == PathOrder(occurrences, {})
    IN  [k \in 1..Len(paths) |-> OccurrencesOf(occurrences, paths[k])]

\* a variant that rewrites every occurrence, a single read included
OccurrencesToReplaceAll(occurrences) == occurrences

\* which occurrences of one path are rewritten: all but the last
OccurrencesToReplace(occurrences) ==
    IF Len(occurrences) <= 1 THEN <<>> ELSE SubSeq(occurrences, 1, Len(occurrences) - 1)

\* the body of the inner loop of applyOptimizations for one occurrence
ReplaceOccurrence(updatedModifications, rawHistory, occurrence, timestamp) ==
    LET messageIndex == occurrence.messageIndex
        blockIndex == occurrence.blockIndex
        fullMatch == occurrence.fullMatch
        filePath == occurrence.filePath
        originalMessage == rawHistory[messageIndex + 1]
        withEntry ==
            IF messageIndex \in DOMAIN updatedModifications
            THEN updatedModifications
            ELSE SetKey(updatedModifications, messageIndex,
                        [editType |-> originalMessage.role, blocks |-> EmptyBlocks])
        existingUpdates ==
            IF blockIndex \in DOMAIN withEntry[messageIndex].blocks
            THEN withEntry[messageIndex].blocks[blockIndex] ELSE <<>>
        fromUpdates ==
            IF /\ Len(existingUpdates) > 0
               /\ Last(existingUpdates).updateType = "replace_content"
               /\ Last(existingUpdates).isString
            THEN Last(existingUpdates).content ELSE <<>>
        originalBlock == originalMessage.content[blockIndex + 1]
        currentText ==
            IF fromUpdates # <<>> THEN fromUpdates
            ELSE IF originalBlock.type = "text" THEN originalBlock.text ELSE <<>>
        update ==
            IF fullMatch = ""
            THEN ContextUpdate(timestamp, "replace_content", TRUE,
                               <<duplicateFileReadNotice>>,
                               [originalPath |-> filePath, replacedMention |-> FALSE])
            ELSE IF currentText # <<>>
            THEN ContextUpdate(timestamp, "replace_content", TRUE,
                               ReplaceFirst(currentText, fullMatch,
                                            MentionReplacement(filePath)),
                               [originalPath |-> filePath, replacedMention |-> TRUE])
            ELSE ContextUpdate(timestamp, "replace_content", TRUE,
                               <<duplicateFileReadNotice>>,
                               [originalPath |-> filePath, replacedMention |-> FALSE])
    IN  PushUpdate(withEntry, messageIndex, blockIndex, update)

\* a variant that reads the clock again for every occurrence
RECURSIVE ReplaceOccurrencesOwnInstant(_, _, _, _)
ReplaceOccurrencesOwnInstant(updatedModifications, rawHistory, occurrences, timestamp) ==
    IF occurrences = <<>> THEN updatedModifications
    ELSE ReplaceOccurrencesOwnInstant(
             ReplaceOccurrence(updatedModifications, rawHistory, Head(occurrences),
                               timestamp),
             rawHistory, Tail(occurrences), timestamp + 1)

RECURSIVE ReplaceOccurrences(_, _, _, _)
ReplaceOccurrences(updatedModifications, rawHistory, occurrences, timestamp) ==
    IF occurrences = <<>> THEN updatedModifications
    ELSE ReplaceOccurrences(
             ReplaceOccurrence(updatedModifications, rawHistory, Head(occurrences),
                               timestamp),
             rawHistory, Tail(occurrences), timestamp)

RECURSIVE OptimizePaths(_, _, _, _)
OptimizePaths(updatedModifications, rawHistory, fileReads, timestamp) ==
    IF fileReads = <<>> THEN updatedModifications
    ELSE OptimizePaths(
             ReplaceOccurrences(updatedModifications, rawHistory,
                                OccurrencesToReplace(Head(fileReads)), timestamp),
             rawHistory, Tail(fileReads), timestamp)

applyOptimizations(rawHistory, currentModifications, timestamp) ==
    OptimizePaths(currentModifications, rawHistory,
                  findDuplicateFileReads(rawHistory), timestamp)

----------------------------------------------------------------------------
(* Truncator *)

\* a variant that rounds the product down
MessagesToRemoveFloor(numMessagesToConsider, percentage) ==
    LET floor == (numMessagesToConsider * percentage[1]) \div percentage[2]
        even == IF floor % 2 # 0 THEN floor + 1 ELSE floor
    IN  Min(even, numMessagesToConsider)

\* a variant that does not make the count even
MessagesToRemoveAnyParity(numMessagesToConsider, percentage) ==
    Min((numMessagesToConsider * percentage[1] + percentage[2] - 1)
            \div percentage[2],
        numMessagesToConsider)

\* Math.ceil(numMessagesToConsider * truncationPercentage), made even, capped
MessagesToRemove(numMessagesToConsider, percentage) ==
    LET ceiling == (numMessagesToConsider * percentage[1] + percentage[2] - 1)
                       \div percentage[2]
        even == IF ceiling % 2 # 0 THEN ceiling + 1 ELSE ceiling
    IN  Min(even, numMessagesToConsider)

\* a variant whose tail starts at endIndexToRemove
RemoveRangeFromEnd(history, messagesToRemove) ==
    SubSeq(history, 1, startIndexToConsider)
    \o SubSeq(history, startIndexToConsider + messagesToRemove, Len(history))

\* a variant that puts the remaining messages before the first pair
RemoveRangeTailFirst(history, messagesToRemove) ==
    SubSeq(history, startIndexToConsider + messagesToRemove + 1, Len(history))
    \o SubSeq(history, 1, startIndexToConsider)

\* truncatedHistory.slice(0, 2) followed by truncatedHistory.slice(endIndexToRemove + 1)
RemoveRange(history, messagesToRemove) ==
    SubSeq(history, 1, startIndexToConsider)
    \o SubSeq(history, startIndexToConsider + messagesToRemove + 1, Len(history))

\* the notice update on (message 1, block 0)
\* a variant that pushes a notice whatever the latest update of the list is
AddTruncationNoticeAlways(modifications, historyToTruncate, timestamp) ==
    LET withEntry ==
            IF firstAssistantMessageIndex \in DOMAIN modifications THEN modifications
            ELSE IF \/ Len(historyToTruncate) <= firstAssistantMessageIndex
                    \/ historyToTruncate[firstAssistantMessageIndex + 1].role # "assistant"
                 THEN modifications
                 ELSE SetKey(modifications, firstAssistantMessageIndex,
                             [editType |-> "assistant", blocks |-> EmptyBlocks])
    IN  IF firstAssistantMessageIndex \notin DOMAIN withEntry THEN withEntry
        ELSE PushUpdate(withEntry, firstAssistantMessageIndex, 0,
                        ContextUpdate(timestamp, "add_truncation_notice",
                                      FALSE, <<>>, NoMetadata))

AddTruncationNotice(modifications, historyToTruncate, timestamp) ==
    LET withEntry ==
            IF firstAssistantMessageIndex \in DOMAIN modifications THEN modifications
            ELSE IF \/ Len(historyToTruncate) <= firstAssistantMessageIndex
                    \/ historyToTruncate[firstAssistantMessageIndex + 1].role # "assistant"
                 THEN modifications
                 ELSE SetKey(modifications, firstAssistantMessageIndex,
                             [editType |-> "assistant", blocks |-> EmptyBlocks])
    IN  IF firstAssistantMessageIndex \notin DOMAIN withEntry THEN withEntry
        ELSE LET blocks == withEntry[firstAssistantMessageIndex].blocks
                 blockUpdates == IF 0 \in DOMAIN blocks THEN blocks[0] ELSE <<>>
             IN  IF \/ blockUpdates = <<>>
                    \/ Last(blockUpdates).updateType # "add_truncation_notice"
                 THEN PushUpdate(withEntry, firstAssistantMessageIndex, 0,
                                 ContextUpdate(timestamp, "add_truncation_notice",
                                               FALSE, <<>>, NoMetadata))
                 ELSE withEntry

\* a variant that also keeps the entry of the first removed message
AdjustKeepingFirstRemoved(modifications, messagesToRemove) ==
    LET endIndexToRemove == startIndexToConsider + messagesToRemove - 1
        kept == {j \in DOMAIN modifications : j <= startIndexToConsider}
        shifted == {j \in DOMAIN modifications : j > endIndexToRemove}
    IN  [k \in kept \cup {j - messagesToRemove : j \in shifted} |->
            IF k \in kept THEN modifications[k]
            ELSE modifications[k + messagesToRemove]]

\* a variant that shifts the surviving entries one index too little
AdjustShiftingOneLess(modifications, messagesToRemove) ==
    LET endIndexToRemove == startIndexToConsider + messagesToRemove - 1
        kept == {j \in DOMAIN modifications : j < startIndexToConsider}
        shifted == {j \in DOMAIN modifications : j > endIndexToRemove}
    IN  [k \in kept \cup {j - (messagesToRemove - 1) : j \in shifted} |->
            IF k \in kept THEN modifications[k]
            ELSE modifications[k + (messagesToRemove - 1)]]

\* the re-keying of the log after the range [2, 2 + messagesToRemove) is removed
AdjustModificationIndices(modifications, messagesToRemove) ==
    LET endIndexToRemove == startIndexToConsider + messagesToRemove - 1
        kept == {j \in DOMAIN modifications : j < startIndexToConsider}
        shifted == {j \in DOMAIN modifications : j > endIndexToRemove}
    IN  [k \in kept \cup {j - messagesToRemove : j \in shifted} |->
            IF k \in kept THEN modifications[k]
            ELSE modifications[k + messagesToRemove]]

\* variants of the two guards
EnoughMessagesOrNone(numMessagesToConsider) == numMessagesToConsider >= 0
TruncationNeededAtLimit(previousRequestTokenCount, maxTokens) ==
    previousRequestTokenCount >= maxTokens

\* numMessagesToConsider > 0
EnoughMessages(numMessagesToConsider) == numMessagesToConsider > 0

\* previousRequestTokenCount > maxTokens
TruncationNeeded(previousRequestTokenCount, maxTokens) ==
    previousRequestTokenCount > maxTokens

applyTruncation(historyToTruncate, currentModifications, maxTokens, previousRequestTokenCount, percentage, timestamp) ==
    LET numMessagesToConsider == Len(historyToTruncate) - startIndexToConsider
        messagesToRemove == MessagesToRemove(numMessagesToConsider, percentage)
    IN  IF ~TruncationNeeded(previousRequestTokenCount, maxTokens)
        THEN [truncatedHistory |-> historyToTruncate,
              updatedModifications |-> currentModifications,
              wasTruncated |-> FALSE, messagesToRemove |-> 0]
        ELSE IF EnoughMessages(numMessagesToConsider)
        THEN [truncatedHistory |-> RemoveRange(historyToTruncate, messagesToRemove),
              updatedModifications |->
                  AdjustModificationIndices(
                      AddTruncationNotice(currentModifications, historyToTruncate,
                                          timestamp),
                      messagesToRemove),
              wasTruncated |-> TRUE, messagesToRemove |-> messagesToRemove]
        ELSE [truncatedHistory |-> historyToTruncate,
              updatedModifications |-> currentModifications,
              wasTruncated |-> TRUE, messagesToRemove |-> 0]

----------------------------------------------------------------------------
(* Manager facade *)

UndefinedModelInfo == [kind |-> "undefined", contextWindow |-> 0]
NullModelInfo == [kind |-> "null", contextWindow |-> 0]
ModelInfoOf(contextWindow) == [kind |-> "object", contextWindow |-> contextWindow]

\* JSON.stringify of a descriptor: undefined has no serialisation (the call
\* yields undefined, not a string), null serialises to the text null, and a
\* record to its fields
stringifyNullish(modelInfo) ==
    IF modelInfo.kind = "object"
    THEN [defined |-> TRUE, text |-> <<"{", "contextWindow", modelInfo.contextWindow, "}">>]
    ELSE [defined |-> TRUE, text |-> <<"null">>]

stringify(modelInfo) ==
    IF modelInfo.kind = "undefined" THEN [defined |-> FALSE, text |-> <<>>]
    ELSE IF modelInfo.kind = "null" THEN [defined |-> TRUE, text |-> <<"null">>]
    ELSE [defined |-> TRUE, text |-> <<"{", "contextWindow", modelInfo.contextWindow, "}">>]

\* every descriptor a caller can pass, the absent ones included
ModelDescriptors == {UndefinedModelInfo, NullModelInfo, ModelInfoOf(3020), ModelInfoOf(3000)}

\* descriptors the caller passes: a window whose budget is a few tokens and a
\* window whose budget is exactly zero
ModelInfos == {ModelInfoOf(3020), ModelInfoOf(3000)}

\* truncation fractions as <<numerator, denominator>>
Percentages == {<<1, 2>>}
LongPercentages == {<<1, 4>>, <<1, 2>>, <<3, 4>>, <<1, 1>>}

maxTokensForContext ==
    getContextWindowInfo(currentModelInfo).maxAllowedSize
        - DefaultReservedResponseTokens - DefaultTokenBuffer

\* previous-request token counts the caller reports: none, exactly the budget,
\* one above it
PreviousRequestTokenCounts ==
    IF maxTokensForContext > 0 THEN {0, maxTokensForContext, maxTokensForContext + 1}
    ELSE {0, 1}

\* a variant of the underflow guard that lets a budget of zero through
BudgetUnderflowBelowZero(maxTokens) == maxTokens < 0

\* maxTokensForContext <= 0
BudgetUnderflow(maxTokens) == maxTokens <= 0

\* a variant of the change test that compares the message keys only
ModificationsChangedByKeys(live, final) == DOMAIN live # DOMAIN final

\* JSON.stringify(this.contextHistoryUpdates) !== JSON.stringify(finalModifications):
\* keys are integers, which JSON.stringify emits in ascending order, so the
\* strings differ exactly when the logs do
ModificationsChanged(live, final) == live # final

\* no call has started: the thread is free and no store is pending
NoneInFlight ==
    [running |-> 0, jobs |-> <<>>, serial |-> EmptyHistoryUpdates]

NoResult ==
    [kind |-> "none", processedHistory |-> <<>>,
     updatedModifications |-> EmptyHistoryUpdates, tokensUsed |-> 0,
     wasTruncated |-> FALSE]

NoCall ==
    [op |-> "none", previousRequestTokenCount |-> 0, maxTokens |-> 0,
     modificationsBefore |-> EmptyHistoryUpdates,
     optimizedModifications |-> EmptyHistoryUpdates,
     historyAfterOptimizations |-> <<>>, messagesToRemove |-> 0, saves |-> 0,
     stored |-> EmptyHistoryUpdates, consecutiveEvictions |-> 0, timestamp |-> 0,
     rawHistory |-> <<>>, modelInfoBefore |-> UndefinedModelInfo,
     newModelInfo |-> UndefinedModelInfo, replaced |-> FALSE,
     contextWindow |-> 0, maxAllowedSizeTimes10 |-> 0, saved |-> "none"]

\* saveContextHistory -> writePersistedContextHistory(history); outcome is
\* "written", "not_written" (no file path, or writeFile failed and was logged)
\* or "threw" (resolving or creating the task directory failed)
SaveOutcomes == {"written", "not_written", "threw"}

\* a variant that creates the file and never overwrites it
writePersistedContextHistoryOnce(stored, history, outcome) ==
    IF outcome = "written" /\ stored = EmptyHistoryUpdates THEN history ELSE stored

\* the file after writePersistedContextHistory(context, taskId, history):
\* the log when the write goes through, the file as it was otherwise. The
\* file is held as the log readPersistedContextHistory returns from it: a log
\* is made of numbers, strings, null, lists and records with string keys,
\* which JSON.stringify followed by JSON.parse gives back as they were
writePersistedContextHistory(stored, history, outcome) ==
    IF outcome = "written" THEN history ELSE stored

Init ==
    /\ rawApiConversationHistory = <<>>
    /\ contextHistoryUpdates = EmptyHistoryUpdates
    /\ currentModelInfo \in ModelInfos
    /\ truncationPercentage \in Percentages
    /\ disk = EmptyHistoryUpdates
    /\ now = 0
    /\ calls = 0
    /\ result = NoResult
    /\ call = NoCall
    /\ checkpoints = <<EmptyHistoryUpdates>>
    /\ inflight = NoneInFlight

\* the caller appends one message to its history; roles alternate
AppendMessage ==
    /\ Len(rawApiConversationHistory) < MaxLen
    /\ \E message \in UserMessages \cup AssistantMessages :
        /\ IF rawApiConversationHistory = <<>> THEN TRUE
           ELSE Last(rawApiConversationHistory).role # message.role
        /\ rawApiConversationHistory' = Append(rawApiConversationHistory, message)
    /\ result' = NoResult
    /\ call' = NoCall
    /\ UNCHANGED <<inflight, contextHistoryUpdates, currentModelInfo, truncationPercentage,
                   disk, now, calls, checkpoints>>

\* Date.now(): each call reads the clock once it has advanced past the last
\* reading, and both readings of one call fall in the same millisecond
DateNow == now + 1

\* each intermediate value of the call is bound once, by a quantifier over a
\* singleton, in the order the code computes it
processHistoryForApi ==
    /\ calls < MaxCalls
    /\ calls' = calls + 1
    /\ now' = DateNow
    /\ \E optimizedModifications \in
               {applyOptimizations(rawApiConversationHistory, contextHistoryUpdates,
                                   DateNow)} :
       \E historyAfterOptimizations \in
               {applyModificationsToHistory(
                    applyContextHistoryUpdates(rawApiConversationHistory),
                    optimizedModifications)} :
       \E previousRequestTokenCount \in PreviousRequestTokenCounts :
       \E truncation \in
               {applyTruncation(historyAfterOptimizations, optimizedModifications,
                                maxTokensForContext, previousRequestTokenCount,
                                truncationPercentage, DateNow)} :
           LET finalModifications == truncation.updatedModifications
               changed == ModificationsChanged(contextHistoryUpdates,
                                               finalModifications)
               thisCall ==
                   [op |-> "process",
                    previousRequestTokenCount |-> previousRequestTokenCount,
                    maxTokens |-> maxTokensForContext,
                    modificationsBefore |-> contextHistoryUpdates,
                    optimizedModifications |-> optimizedModifications,
                    historyAfterOptimizations |-> historyAfterOptimizations,
                    messagesToRemove |-> 0, saves |-> 0,
                    stored |-> EmptyHistoryUpdates, consecutiveEvictions |-> 0,
                    timestamp |-> DateNow,
                    rawHistory |-> rawApiConversationHistory,
                    saved |-> "none"]
           IN  IF BudgetUnderflow(maxTokensForContext)
               THEN /\ result' = [kind |-> "returned",
                                  processedHistory |-> rawApiConversationHistory,
                                  updatedModifications |-> contextHistoryUpdates,
                                  tokensUsed |->
                                      calculateTokens(rawApiConversationHistory),
                                  wasTruncated |-> FALSE]
                    /\ call' = thisCall
                    /\ UNCHANGED <<contextHistoryUpdates, disk>>
               ELSE \E save \in SaveOutcomes :
                    /\ changed \/ save = "written"
                    /\ contextHistoryUpdates' = IF changed THEN finalModifications
                                                ELSE contextHistoryUpdates
                    /\ disk' = IF changed
                               THEN writePersistedContextHistory(disk, finalModifications,
                                                                 save)
                               ELSE disk
                    /\ result' = IF changed /\ save = "threw"
                                 THEN [NoResult EXCEPT !.kind = "threw"]
                                 ELSE [kind |-> "returned",
                                       processedHistory |-> truncation.truncatedHistory,
                                       updatedModifications |->
                                           contextHistoryUpdates',
                                       tokensUsed |->
                                           calculateTokens(truncation.truncatedHistory),
                                       wasTruncated |-> truncation.wasTruncated]
                    /\ call' = [thisCall EXCEPT
                                   !.messagesToRemove = truncation.messagesToRemove,
                                   !.saves = IF changed THEN 1 ELSE 0,
                                   !.saved = IF changed THEN save ELSE "none",
                                   !.stored = IF changed THEN finalModifications
                                              ELSE EmptyHistoryUpdates,
                                   !.consecutiveEvictions =
                                       IF truncation.messagesToRemove > 0
                                       THEN call.consecutiveEvictions + 1 ELSE 0]
    /\ checkpoints' = Append(checkpoints, contextHistoryUpdates')
    /\ rawApiConversationHistory' =
           CallerHistoryAfter(rawApiConversationHistory, call'.historyAfterOptimizations)
    /\ UNCHANGED <<inflight, currentModelInfo, truncationPercentage>>

\* the comparison of updateModelInfo: the serialisations differ
ModelInfoDiffers(current, newModelInfo) == stringify(current) # stringify(newModelInfo)

updateModelInfo ==
    /\ \E newModelInfo \in ModelInfos :
        currentModelInfo' = IF ModelInfoDiffers(currentModelInfo, newModelInfo)
                            THEN newModelInfo ELSE currentModelInfo
    /\ result' = NoResult
    /\ call' = NoCall
    /\ UNCHANGED <<inflight, rawApiConversationHistory, contextHistoryUpdates,
                   truncationPercentage, disk, now, calls, checkpoints>>

\* a variant of the filter that drops the updates made at the instant itself
ValidUpdateStrictlyBefore(update, timestamp) == update.timestamp < timestamp

\* a variant of the filter that keeps the updates made at the instant only
ValidUpdateAtInstant(update, timestamp) == update.timestamp = timestamp

\* update[0] <= timestamp
ValidUpdate(update, timestamp) == update.timestamp <= timestamp

\* updates.filter(update => update[0] <= timestamp)
validUpdates(updates, timestamp) ==
    SelectSeq(updates, LAMBDA update : ValidUpdate(update, timestamp))

\* newBlocks of one message entry: the blocks that keep at least one update
newBlocks(blocks, timestamp) ==
    LET kept == {b \in DOMAIN blocks : Len(validUpdates(blocks[b], timestamp)) > 0}
    IN  [b \in kept |-> validUpdates(blocks[b], timestamp)]

\* newModifications: the entries that keep at least one block
newModifications(modifications, timestamp) ==
    LET kept == {m \in DOMAIN modifications :
                    DOMAIN newBlocks(modifications[m].blocks, timestamp) # {}}
    IN  [m \in kept |->
            [editType |-> modifications[m].editType,
             blocks |-> newBlocks(modifications[m].blocks, timestamp)]]

\* a variant of the rollback's change test that compares the message keys only
RollbackChangedKeys(original, rolledBack) == DOMAIN rolledBack # DOMAIN original

\* JSON.stringify(newModifications) !== originalModificationsString
RollbackChanged(original, rolledBack) == rolledBack # original

\* checkpoint restoration: the caller rolls the log back to an instant the
\* clock has shown
truncateHistoryUpdatesAtTimestamp ==
    \E timestamp \in 0..now :
    \E rolledBack \in {newModifications(contextHistoryUpdates, timestamp)} :
    \E save \in SaveOutcomes :
        LET changed == RollbackChanged(contextHistoryUpdates, rolledBack)
        IN  /\ changed \/ save = "written"
            /\ contextHistoryUpdates' = IF changed THEN rolledBack
                                        ELSE contextHistoryUpdates
            /\ disk' = IF changed
                       THEN writePersistedContextHistory(disk, rolledBack, save)
                       ELSE disk
            /\ result' = [NoResult EXCEPT
                              !.kind = IF changed /\ save = "threw"
                                       THEN "threw" ELSE "returned"]
            /\ call' = [NoCall EXCEPT
                            !.op = "rollback",
                            !.timestamp = timestamp,
                            !.modificationsBefore = contextHistoryUpdates,
                            !.saves = IF changed THEN 1 ELSE 0,
                            !.saved = IF changed THEN save ELSE "none",
                            !.stored = IF changed THEN rolledBack
                                       ELSE EmptyHistoryUpdates]
            /\ checkpoints' = IF (now + 1) \in DOMAIN checkpoints
                              THEN [checkpoints EXCEPT ![now + 1] = contextHistoryUpdates']
                              ELSE checkpoints
            /\ UNCHANGED <<inflight, rawApiConversationHistory, currentModelInfo,
                           truncationPercentage, now, calls>>

Next == AppendMessage \/ processHistoryForApi \/ updateModelInfo

Spec == Init /\ [][Next]_vars

\* Long histories of plain alternating messages, every truncation fraction:
\* the manager is constructed, handed one such history and called
InitLong ==
    /\ \E n \in 0..MaxLongLen : rawApiConversationHistory = createLongHistory(n)
    /\ contextHistoryUpdates = EmptyHistoryUpdates
    /\ currentModelInfo = ModelInfoOf(3020)
    /\ truncationPercentage \in LongPercentages
    /\ disk = EmptyHistoryUpdates
    /\ now = 0
    /\ calls = 0
    /\ result = NoResult
    /\ call = NoCall
    /\ checkpoints = <<EmptyHistoryUpdates>>
    /\ inflight = NoneInFlight

NextLong == processHistoryForApi

SpecLong == InitLong /\ [][NextLong]_vars

\* ---------------------------------------------------------------------------
\* Model descriptor updates: a manager built with any descriptor, absent ones
\* included, on a plain history; the caller swaps descriptors between calls.
\* ---------------------------------------------------------------------------

updateModelInfoTo ==
    /\ \E newModelInfo \in ModelDescriptors :
        \E differs \in {ModelInfoDiffers(currentModelInfo, newModelInfo)} :
            /\ currentModelInfo' = IF differs THEN newModelInfo ELSE currentModelInfo
            /\ call' = [NoCall EXCEPT !.op = "updateModel",
                                      !.modificationsBefore = contextHistoryUpdates,
                                      !.stored = disk,
                                      !.modelInfoBefore = currentModelInfo,
                                      !.newModelInfo = newModelInfo,
                                      !.replaced = differs]
    /\ result' = NoResult
    /\ UNCHANGED <<inflight, rawApiConversationHistory, contextHistoryUpdates,
                   truncationPercentage, disk, now, calls, checkpoints>>

InitModel ==
    /\ \E n \in 0..MaxLen : rawApiConversationHistory = createLongHistory(n)
    /\ contextHistoryUpdates = EmptyHistoryUpdates
    /\ currentModelInfo \in ModelDescriptors
    /\ truncationPercentage \in Percentages
    /\ disk = EmptyHistoryUpdates
    /\ now = 0
    /\ calls = 0
    /\ result = NoResult
    /\ call = NoCall
    /\ checkpoints = <<EmptyHistoryUpdates>>
    /\ inflight = NoneInFlight

NextModel == updateModelInfoTo \/ processHistoryForApi

SpecModel == InitModel /\ [][NextModel]_vars

\* assistant messages made of text blocks only
TextReplies ==
    {m \in AssistantMessages : \A b \in 1..Len(m.content) : m.content[b].type = "text"}

\* conversations of n messages that start with the user and alternate, the
\* assistant's messages taken from replies
RECURSIVE Conversations(_, _)
Conversations(n, replies) ==
    IF n = 0 THEN {<<>>}
    ELSE {Append(h, m) : h \in Conversations(n - 1, replies),
                         m \in IF n % 2 = 1 THEN UserMessages ELSE replies}

\* Rollback: the manager is constructed, handed one conversation, called and
\* rolled back
InitRollback ==
    /\ \E n \in 0..MaxLen : rawApiConversationHistory \in Conversations(n, TextReplies)
    /\ contextHistoryUpdates = EmptyHistoryUpdates
    /\ currentModelInfo = ModelInfoOf(3020)
    /\ truncationPercentage \in Percentages
    /\ disk = EmptyHistoryUpdates
    /\ now = 0
    /\ calls = 0
    /\ result = NoResult
    /\ call = NoCall
    /\ checkpoints = <<EmptyHistoryUpdates>>
    /\ inflight = NoneInFlight

NextRollback ==
    \/ processHistoryForApi
    \/ truncateHistoryUpdatesAtTimestamp

SpecRollback == InitRollback /\ [][NextRollback]_vars

\* the updates a persisted log can hold on one block: a string replacement, a
\* replacement whose content is not a string, a truncation notice, an update
\* of type 'other'
ApplierUpdates ==
    {ContextUpdate(1, "replace_content", TRUE, <<"x">>, NoMetadata),
     ContextUpdate(1, "replace_content", FALSE, <<>>, NoMetadata),
     ContextUpdate(1, "add_truncation_notice", FALSE, <<>>, NoMetadata),
     ContextUpdate(1, "other", FALSE, <<>>, NoMetadata)}

\* the non-empty update lists of at most MaxUpdates updates
UpdateLists == UNION {[1..n -> ApplierUpdates] : n \in 1..MaxUpdates}

\* the (message, block) keys of a persisted log, keys past the end of the
\* history and of the message included
ApplierPositions == (0..MaxApplyLen) \X (0..MaxBlockIndex)

\* a log with the given update lists at the given positions
LogOf(positions, listAt) ==
    [m \in {p[1] : p \in positions} |->
        [editType |-> "user",
         blocks |-> [b \in {p[2] : p \in {q \in positions : q[1] = m}} |->
                        listAt[<<m, b>>]]]]

\* persisted logs: empty, one position with any update list, or two positions
\* with one update each
ApplierLogs ==
    {EmptyHistoryUpdates}
    \cup {LogOf({p}, [q \in {p} |-> list]) : p \in ApplierPositions, list \in UpdateLists}
    \cup UNION {{LogOf({p1, p2}, listAt) :
                    listAt \in [{p1, p2} -> {<<u>> : u \in ApplierUpdates}]} :
                p1 \in ApplierPositions, p2 \in ApplierPositions}

\* Applier: the manager is constructed, loads a persisted log, and the log is
\* applied to a conversation
InitApply ==
    /\ \E n \in 0..MaxApplyLen :
           rawApiConversationHistory \in Conversations(n, AssistantMessages)
    /\ disk \in ApplierLogs
    /\ contextHistoryUpdates = disk
    /\ currentModelInfo = ModelInfoOf(3020)
    /\ truncationPercentage \in Percentages
    /\ now = 1
    /\ calls = 0
    /\ result = NoResult
    /\ call = NoCall
    /\ checkpoints = <<EmptyHistoryUpdates, contextHistoryUpdates>>
    /\ inflight = NoneInFlight

\* the projection of the raw history under the live log
ApplyUpdates ==
    /\ call.op = "none"
    /\ result' = [NoResult EXCEPT
                      !.kind = "applied",
                      !.processedHistory =
                          applyContextHistoryUpdates(rawApiConversationHistory)]
    /\ call' = [NoCall EXCEPT !.op = "apply",
                              !.modificationsBefore = contextHistoryUpdates]
    /\ UNCHANGED <<inflight, rawApiConversationHistory, contextHistoryUpdates,
                   currentModelInfo, truncationPercentage, disk, now, calls,
                   checkpoints>>

NextApply == ApplyUpdates

SpecApply == InitApply /\ [][NextApply]_vars

\* ---------------------------------------------------------------------------
\* Loaded logs: the manager is constructed, loads a persisted log that may
\* not fit the conversation, and is called.
\* ---------------------------------------------------------------------------

\* a conversation of n messages: the user's first message with or without a
\* repeated mention, every reply an image block followed by a text block
LoadedConversations(n) ==
    {[i \in 1..n |->
        IF i = 1 THEN first
        ELSE IF i % 2 = 1 THEN Message("user", <<TextBlock(<<"w">>)>>)
        ELSE Message("assistant", <<ImageBlock, TextBlock(<<"ok">>)>>)] :
     first \in {Message("user", <<TextBlock(<<"w">>)>>),
                Message("user", <<TextBlock(<<"w", Mention("a"), Mention("a")>>)>>)}}

\* keys of a loaded log: every message index up to one past the longest
\* conversation, block 0 and block 1
LoadedPositions == (0..MaxLen) \X (0..1)

\* a replacement that fits the text block of the first reply
FittingPosition == <<1, 1>>
FittingUpdate == ContextUpdate(1, "replace_content", TRUE, <<"x">>, NoMetadata)

\* update lists of a loaded log: one update of any kind, alone or after the
\* fitting replacement
LoadedLists ==
    {<<u>> : u \in ApplierUpdates} \cup {<<FittingUpdate, u>> : u \in ApplierUpdates}

\* loaded logs: empty, one position with an update list, or the fitting
\* replacement together with one update at any position
LoadedLogs ==
    {EmptyHistoryUpdates}
    \cup {LogOf({p}, [q \in {p} |-> list]) : p \in LoadedPositions, list \in LoadedLists}
    \cup {LogOf({FittingPosition, p},
                [q \in {FittingPosition, p} |->
                    IF q = FittingPosition THEN <<FittingUpdate>> ELSE <<u>>]) :
              p \in LoadedPositions, u \in ApplierUpdates}

InitLoaded ==
    /\ \E n \in 0..MaxLen : rawApiConversationHistory \in LoadedConversations(n)
    /\ disk \in LoadedLogs
    /\ contextHistoryUpdates = disk
    /\ currentModelInfo = ModelInfoOf(3020)
    /\ truncationPercentage \in Percentages
    /\ now = 1
    /\ calls = 0
    /\ result = NoResult
    /\ call = NoCall
    /\ checkpoints = <<EmptyHistoryUpdates, contextHistoryUpdates>>
    /\ inflight = NoneInFlight

NextLoaded == processHistoryForApi

SpecLoaded == InitLoaded /\ [][NextLoaded]_vars

\* ---------------------------------------------------------------------------
\* Wall clock: Date.now() reads the system clock, which the host may set to
\* any reading, an earlier one included, between two calls.
\* ---------------------------------------------------------------------------

adjustSystemClock ==
    /\ \E reading \in 0..MaxCalls :
          /\ reading # now
          /\ now' = reading
    /\ result' = NoResult
    /\ call' = NoCall
    /\ UNCHANGED <<inflight, rawApiConversationHistory, contextHistoryUpdates, currentModelInfo,
                   truncationPercentage, disk, calls, checkpoints>>

InitClock ==
    /\ \E n \in 0..MaxLen : rawApiConversationHistory \in LoadedConversations(n)
    /\ contextHistoryUpdates = EmptyHistoryUpdates
    /\ currentModelInfo = ModelInfoOf(3020)
    /\ truncationPercentage \in Percentages
    /\ disk = EmptyHistoryUpdates
    /\ now = 0
    /\ calls = 0
    /\ result = NoResult
    /\ call = NoCall
    /\ checkpoints = <<EmptyHistoryUpdates>>
    /\ inflight = NoneInFlight

NextClock == processHistoryForApi \/ truncateHistoryUpdatesAtTimestamp \/ adjustSystemClock

SpecClock == InitClock /\ [][NextClock]_vars

\* ---------------------------------------------------------------------------
\* Budget oracle: getContextWindowInfo read for a descriptor of any window.
\* ---------------------------------------------------------------------------

\* windows around the values where the policy changes
WindowAnchors == {500, 1000, 2000, 40000, 50000, 64000, 80000, 100000, 128000, 200000, 250000, 1000000}

OracleWindows ==
    {0} \cup {anchor + offset : anchor \in WindowAnchors,
                                offset \in (0 - MaxWindowOffset)..MaxWindowOffset}

OracleDescriptors ==
    {UndefinedModelInfo, NullModelInfo, [kind |-> "object", contextWindow |-> 0]}
    \cup {ModelInfoOf(contextWindow) : contextWindow \in OracleWindows \ {0}}

readContextWindowInfo ==
    /\ call.op = "none"
    /\ \E info \in {getContextWindowInfo(currentModelInfo)} :
          call' = [NoCall EXCEPT !.op = "oracle",
                                 !.contextWindow = info.contextWindow,
                                 !.maxAllowedSizeTimes10 = info.maxAllowedSizeTimes10]
    /\ result' = NoResult
    /\ UNCHANGED <<inflight, rawApiConversationHistory, contextHistoryUpdates, currentModelInfo,
                   truncationPercentage, disk, now, calls, checkpoints>>

InitOracle ==
    /\ rawApiConversationHistory = <<>>
    /\ contextHistoryUpdates = EmptyHistoryUpdates
    /\ currentModelInfo \in OracleDescriptors
    /\ truncationPercentage \in Percentages
    /\ disk = EmptyHistoryUpdates
    /\ now = 0
    /\ calls = 0
    /\ result = NoResult
    /\ call = NoCall
    /\ checkpoints = <<EmptyHistoryUpdates>>
    /\ inflight = NoneInFlight

NextOracle == readContextWindowInfo

SpecOracle == InitOracle /\ [][NextOracle]_vars

----------------------------------------------------------------------------
(* Overlapping calls: one thread runs a call until it awaits *)

\* a variant in which a call also awaits between computing its candidate log
\* and swapping the live log
awaitsAfterComputing(pc) == pc \in {"computed", "storing"}

\* the points at which a call awaits, leaving the thread to other calls: the
\* only await of processHistoryForApi and of truncateHistoryUpdatesAtTimestamp
\* is the one on saveContextHistory()
awaits(pc) == pc = "storing"

\* who holds the thread once call id has reached pc
ThreadAfter(id, pc) == IF awaits(pc) \/ pc = "done" THEN 0 ELSE id

\* a store of an earlier call is pending
StorePending == \E id \in DOMAIN inflight.jobs : inflight.jobs[id].pc = "storing"

NoJob ==
    [op |-> "none", pc |-> "done", timestamp |-> 0, previousRequestTokenCount |-> 0,
     original |-> EmptyHistoryUpdates, candidate |-> EmptyHistoryUpdates,
     history |-> <<>>, wasTruncated |-> FALSE, stored |-> EmptyHistoryUpdates,
     changed |-> FALSE, overlapped |-> FALSE]

\* the log processHistoryForApi leaves when it runs from modifications to its
\* return with nothing in between
logAfterProcess(modifications, rawHistory, previousRequestTokenCount, timestamp) ==
    IF BudgetUnderflow(maxTokensForContext) THEN modifications
    ELSE LET optimizedModifications ==
                 applyOptimizations(rawHistory, modifications, timestamp)
             historyAfterOptimizations ==
                 applyModificationsToHistory(
                     applyModificationsToHistory(rawHistory, modifications),
                     optimizedModifications)
         IN  applyTruncation(historyAfterOptimizations, optimizedModifications,
                             maxTokensForContext, previousRequestTokenCount,
                             truncationPercentage, timestamp).updatedModifications

\* processHistoryForApi up to the budget: the candidate log and the history
\* under it, from the live log as it is when the call starts
startProcess ==
    /\ inflight.running = 0
    /\ calls < MaxCalls
    /\ calls' = calls + 1
    /\ now' = DateNow
    /\ \E previousRequestTokenCount \in PreviousRequestTokenCounts :
       \E optimizedModifications \in
               {applyOptimizations(rawApiConversationHistory, contextHistoryUpdates,
                                   DateNow)} :
       \E id \in {Len(inflight.jobs) + 1} :
           inflight' =
               [running |-> ThreadAfter(id, "computed"),
                jobs |-> Append(inflight.jobs,
                    [NoJob EXCEPT
                        !.op = "process", !.pc = "computed", !.timestamp = DateNow,
                        !.previousRequestTokenCount = previousRequestTokenCount,
                        !.original = contextHistoryUpdates,
                        !.candidate = optimizedModifications,
                        !.history =
                            applyModificationsToHistory(
                                applyContextHistoryUpdates(rawApiConversationHistory),
                                optimizedModifications),
                        !.overlapped = StorePending]),
                serial |-> logAfterProcess(inflight.serial, rawApiConversationHistory,
                                           previousRequestTokenCount, DateNow)]
    /\ UNCHANGED <<rawApiConversationHistory, contextHistoryUpdates, currentModelInfo,
                   truncationPercentage, disk, result, call, checkpoints>>

\* processHistoryForApi from the budget to the await: truncation of the
\* candidate, comparison with the live log, swap, and the store issued
swapProcess ==
    \E id \in DOMAIN inflight.jobs :
    \E job \in {inflight.jobs[id]} :
        /\ job.op = "process" /\ job.pc = "computed"
        /\ inflight.running = ThreadAfter(id, "computed")
        /\ \E truncation \in
                  {applyTruncation(job.history, job.candidate, maxTokensForContext,
                                   job.previousRequestTokenCount,
                                   truncationPercentage, job.timestamp)} :
           \E changed \in
                  {/\ ~BudgetUnderflow(maxTokensForContext)
                   /\ ModificationsChanged(contextHistoryUpdates,
                                           truncation.updatedModifications)} :
           \E pc \in {IF changed THEN "storing" ELSE "done"} :
               /\ contextHistoryUpdates' =
                      IF changed THEN truncation.updatedModifications
                      ELSE contextHistoryUpdates
               /\ inflight' =
                      [inflight EXCEPT
                          !.running = ThreadAfter(id, pc),
                          !.jobs[id] =
                              [job EXCEPT
                                  !.pc = pc, !.changed = changed,
                                  !.stored = truncation.updatedModifications,
                                  !.history =
                                      IF BudgetUnderflow(maxTokensForContext)
                                      THEN rawApiConversationHistory
                                      ELSE truncation.truncatedHistory,
                                  !.wasTruncated =
                                      /\ ~BudgetUnderflow(maxTokensForContext)
                                      /\ truncation.wasTruncated]]
               /\ result' =
                      IF changed THEN NoResult
                      ELSE [kind |-> "returned",
                            processedHistory |-> inflight'.jobs[id].history,
                            updatedModifications |-> contextHistoryUpdates,
                            tokensUsed |-> calculateTokens(inflight'.jobs[id].history),
                            wasTruncated |-> inflight'.jobs[id].wasTruncated]
        /\ UNCHANGED <<rawApiConversationHistory, currentModelInfo,
                       truncationPercentage, disk, now, calls, call, checkpoints>>

\* truncateHistoryUpdatesAtTimestamp up to the comparison: the serialisation
\* of the live log and the filtered log
startRollback ==
    /\ inflight.running = 0
    /\ calls < MaxCalls
    /\ calls' = calls + 1
    /\ \E timestamp \in 0..now :
       \E id \in {Len(inflight.jobs) + 1} :
           inflight' =
               [running |-> ThreadAfter(id, "computed"),
                jobs |-> Append(inflight.jobs,
                    [NoJob EXCEPT
                        !.op = "rollback", !.pc = "computed",
                        !.timestamp = timestamp,
                        !.original = contextHistoryUpdates,
                        !.candidate = newModifications(contextHistoryUpdates, timestamp),
                        !.overlapped = StorePending]),
                serial |-> newModifications(inflight.serial, timestamp)]
    /\ UNCHANGED <<rawApiConversationHistory, contextHistoryUpdates, currentModelInfo,
                   truncationPercentage, disk, now, result, call, checkpoints>>

\* truncateHistoryUpdatesAtTimestamp from the comparison to the await
swapRollback ==
    \E id \in DOMAIN inflight.jobs :
    \E job \in {inflight.jobs[id]} :
        /\ job.op = "rollback" /\ job.pc = "computed"
        /\ inflight.running = ThreadAfter(id, "computed")
        /\ \E changed \in {RollbackChanged(job.original, job.candidate)} :
           \E pc \in {IF changed THEN "storing" ELSE "done"} :
               /\ contextHistoryUpdates' =
                      IF changed THEN job.candidate ELSE contextHistoryUpdates
               /\ inflight' =
                      [inflight EXCEPT
                          !.running = ThreadAfter(id, pc),
                          !.jobs[id] = [job EXCEPT !.pc = pc, !.changed = changed,
                                                   !.stored = job.candidate]]
               /\ result' = IF changed THEN NoResult
                            ELSE [NoResult EXCEPT !.kind = "returned"]
        /\ UNCHANGED <<rawApiConversationHistory, currentModelInfo,
                       truncationPercentage, disk, now, calls, call, checkpoints>>

\* the pending store of a call settles, and the call returns or throws; a
\* process call returns the live log as it is by then
completeStore ==
    /\ inflight.running = 0
    /\ \E id \in DOMAIN inflight.jobs :
       \E job \in {inflight.jobs[id]} :
       \E save \in SaveOutcomes :
           /\ job.pc = "storing"
           /\ disk' = writePersistedContextHistory(disk, job.stored, save)
           /\ inflight' = [inflight EXCEPT !.jobs[id].pc = "done"]
           /\ result' =
                  IF save = "threw" THEN [NoResult EXCEPT !.kind = "threw"]
                  ELSE IF job.op = "rollback" THEN [NoResult EXCEPT !.kind = "returned"]
                  ELSE [kind |-> "returned",
                        processedHistory |-> job.history,
                        updatedModifications |-> contextHistoryUpdates,
                        tokensUsed |-> calculateTokens(job.history),
                        wasTruncated |-> job.wasTruncated]
    /\ UNCHANGED <<rawApiConversationHistory, contextHistoryUpdates, currentModelInfo,
                   truncationPercentage, now, calls, call, checkpoints>>

\* Overlap: the manager is constructed, handed one conversation, and called
\* again while stores of earlier calls are pending
InitOverlap ==
    /\ \E n \in 0..MaxLen : rawApiConversationHistory \in Conversations(n, TextReplies)
    /\ contextHistoryUpdates = EmptyHistoryUpdates
    /\ currentModelInfo \in ModelInfos
    /\ truncationPercentage \in Percentages
    /\ disk = EmptyHistoryUpdates
    /\ now = 0
    /\ calls = 0
    /\ result = NoResult
    /\ call = NoCall
    /\ checkpoints = <<EmptyHistoryUpdates>>
    /\ inflight = NoneInFlight

NextOverlap ==
    \/ startProcess
    \/ swapProcess
    \/ startRollback
    \/ swapRollback
    \/ completeStore

SpecOverlap == InitOverlap /\ [][NextOverlap]_vars

----------------------------------------------------------------------------
(* What the last call shows *)

\* the last operation was a process call that returned to its caller
Returned == call.op = "process" /\ result.kind = "returned"

\* ... with a positive budget, so that the truncation decision was taken
Decided == Returned /\ call.maxTokens > 0

RawLen == Len(rawApiConversationHistory)

\* number of messages missing from the prepared history
Evicted == RawLen - Len(result.processedHistory)

\* the updates recorded for (messageIndex, blockIndex) in a log
UpdatesAt(modifications, messageIndex, blockIndex) ==
    IF messageIndex \in DOMAIN modifications
    THEN IF blockIndex \in DOMAIN modifications[messageIndex].blocks
         THEN modifications[messageIndex].blocks[blockIndex] ELSE <<>>
    ELSE <<>>

RECURSIVE CountKind(_, _)
CountKind(updates, updateType) ==
    IF updates = <<>> THEN 0
    ELSE (IF Head(updates).updateType = updateType THEN 1 ELSE 0)
         + CountKind(Tail(updates), updateType)

\* number of add_truncation_notice updates on (message 1, block 0)
NoticeUpdates(modifications) ==
    CountKind(UpdatesAt(modifications, 1, 0), "add_truncation_notice")

RECURSIVE CountAtom(_, _)
CountAtom(text, atom) ==
    IF text = <<>> THEN 0
    ELSE (IF Head(text) = atom THEN 1 ELSE 0) + CountAtom(Tail(text), atom)

IsPrefix(s, t) == Len(s) <= Len(t) /\ SubSeq(t, 1, Len(s)) = s

\* user, assistant, user, ...
Alternates(history) ==
    \A i \in 1..Len(history) :
        history[i].role = IF i % 2 = 1 THEN "user" ELSE "assistant"

\* ceil(n * fraction), then the next even integer, then at most n
CeilOf(n, fraction) ==
    CHOOSE k \in 0..n :
        /\ k * fraction[2] >= n * fraction[1]
        /\ k = 0 \/ (k - 1) * fraction[2] < n * fraction[1]
ExpectedRemove(n, fraction) ==
    LET c == CeilOf(n, fraction)
        e == IF c % 2 = 1 THEN c + 1 ELSE c
    IN  IF e > n THEN n ELSE e

\* the history before eviction splits into the first pair, the evicted range
\* and the tail, and the prepared history is the first pair and the tail
PrefixAndSuffixKept(removed) ==
    LET before == call.historyAfterOptimizations
        after == result.processedHistory
    IN  /\ Len(after) = Len(before) - removed
        /\ \A i \in 1..Len(after) :
              after[i] = IF i <= 2 THEN before[i] ELSE before[i + removed]

----------------------------------------------------------------------------
C2_OptimizationAvoidsTruncation ==
    ( /\ Decided
      /\ call.previousRequestTokenCount > call.maxTokens
      /\ calculateTokens(call.historyAfterOptimizations) <= call.maxTokens )
    => /\ ~result.wasTruncated
       /\ Len(result.processedHistory) = RawLen
       /\ NoticeUpdates(result.updatedModifications) = 0
       /\ result.updatedModifications = call.optimizedModifications
       /\ (call.optimizedModifications # call.modificationsBefore => call.saves = 1)

(* C3: a truncation of N > 2 messages with fraction phi evicts              *)
(* ceil((N-2)*phi) messages, raised to the next even integer, capped at     *)
(* N-2: the prepared history is messages 0 and 1 followed by the messages   *)
(* from position 2+remove on, in order.                                     *)
C3_EvictionWindow ==
    (Decided /\ result.wasTruncated /\ RawLen > 2) =>
        /\ Evicted = ExpectedRemove(RawLen - 2, truncationPercentage)
        /\ PrefixAndSuffixKept(ExpectedRemove(RawLen - 2, truncationPercentage))

\* ten messages at one half lose four
C3_Witness ==
    /\ Decided /\ result.wasTruncated
    /\ RawLen = 10 /\ truncationPercentage = <<1, 2>>
    /\ Len(result.processedHistory) = 6
    /\ result.processedHistory[3] = PlainMessage(6)

(* C4: after every truncation, for every N and fraction, the number of      *)
(* evicted messages is even, the first two messages are the prefix and the  *)
(* rest is a contiguous suffix of the history before truncation.            *)
C4_EvictionParity ==
    (Decided /\ result.wasTruncated /\ RawLen > 2) =>
        /\ Evicted % 2 = 0
        /\ PrefixAndSuffixKept(Evicted)

(* C5: if the raw history alternates user, assistant, ... from a user       *)
(* message, so does the prepared history of any process call, truncating    *)
(* or not, for any N and any fraction in (0, 1].                            *)
C5_RoleParity ==
    (Returned /\ Alternates(rawApiConversationHistory)) =>
        Alternates(result.processedHistory)

\* an odd number of candidates, cut so that a tail remains
C5_Witness ==
    /\ Decided /\ result.wasTruncated
    /\ Alternates(rawApiConversationHistory)
    /\ RawLen = 7
    /\ Len(result.processedHistory) = 3

\* the text of block 0 of message 1 of a history
FirstAssistantText(history) == history[2].content[1].text

\* message 1 of the raw history is an assistant message whose block 0 is text
FirstAssistantIsText ==
    /\ RawLen >= 2
    /\ rawApiConversationHistory[2].role = "assistant"
    /\ rawApiConversationHistory[2].content[1].type = "text"

\* one raw message under the entry the log holds for it
Projected(message, entry) ==
    [message EXCEPT !.content =
        [b \in 1..Len(@) |->
            IF (b - 1) \in DOMAIN entry.blocks /\ entry.blocks[b - 1] # <<>>
            THEN ApplyLatestUpdate(@[b], Last(entry.blocks[b - 1]))
            ELSE @[b]]]

(* C6: when the range [2, 2+remove) is evicted, every log entry with        *)
(* original index j < 2 is kept under j, every entry with 2 <= j < 2+remove *)
(* is discarded and every entry with j >= 2+remove is kept under j - remove *)
(* with its editType and update lists unchanged; no entry of an evicted     *)
(* message survives and no two entries collide on one key.                  *)
C6_IndexRewrite ==
    (Decided /\ Evicted > 0) =>
        LET candidate == call.optimizedModifications
            final == result.updatedModifications
            low == {j \in DOMAIN candidate : j < 2}
            high == {j \in DOMAIN candidate : j >= 2 + Evicted}
        IN  /\ \A j \in low :
                  /\ j \in DOMAIN final
                  /\ final[j].editType = candidate[j].editType
                  /\ \A b \in DOMAIN candidate[j].blocks :
                        /\ b \in DOMAIN final[j].blocks
                        /\ IsPrefix(candidate[j].blocks[b], final[j].blocks[b])
            /\ \A j \in high :
                  /\ (j - Evicted) \in DOMAIN final
                  /\ final[j - Evicted] = candidate[j]
            /\ DOMAIN final \subseteq low \cup {1} \cup {j - Evicted : j \in high}
            /\ (1 \in DOMAIN final /\ 1 \notin low) =>
                  /\ final[1].editType = "assistant"
                  /\ DOMAIN final[1].blocks = {0}
                  /\ Len(final[1].blocks[0]) = 1
                  /\ final[1].blocks[0][1].updateType = "add_truncation_notice"
            /\ Cardinality(DOMAIN final \ {1}) = Cardinality((low \cup high) \ {1})

\* entries below, inside and above the evicted range
C6_Witness ==
    /\ Decided /\ Evicted > 0
    /\ \E j \in DOMAIN call.optimizedModifications : j < 2
    /\ \E j \in DOMAIN call.optimizedModifications : 2 <= j /\ j < 2 + Evicted
    /\ \E j \in DOMAIN call.optimizedModifications : j >= 2 + Evicted

(* C7: an update that was in the live log before a truncating call, on a    *)
(* message at index j >= 2+remove, stays with that message: the returned    *)
(* log holds it under j - remove, timestamp and payload unchanged, and the  *)
(* prepared history at j - remove is that message with its update applied.  *)
C7_EditFollowsMessage ==
    (Decided /\ Evicted > 0) =>
        \A j \in DOMAIN call.modificationsBefore :
            (j >= 2 + Evicted /\ j < RawLen) =>
                LET old == call.modificationsBefore[j]
                    final == result.updatedModifications
                IN  /\ (j - Evicted) \in DOMAIN final
                    /\ final[j - Evicted].editType = old.editType
                    /\ \A b \in DOMAIN old.blocks :
                          /\ b \in DOMAIN final[j - Evicted].blocks
                          /\ IsPrefix(old.blocks[b], final[j - Evicted].blocks[b])
                    /\ result.processedHistory[j - Evicted + 1]
                           = Projected(rawApiConversationHistory[j + 1],
                                       final[j - Evicted])

\* a replaced message above the evicted range
C7_Witness ==
    /\ Decided /\ Evicted > 0
    /\ \E j \in DOMAIN call.modificationsBefore :
          /\ j >= 2 + Evicted /\ j < RawLen
          /\ result.processedHistory[j - Evicted + 1]
                 # rawApiConversationHistory[j + 1]

(* C8: whenever a process call evicts messages and message 1 is an          *)
(* assistant message whose block 0 is text, the prepared history returned   *)
(* by that call has that text beginning with the truncation notice, and the *)
(* returned log has an add_truncation_notice update at (message 1, block 0) *)
C8_NoticeInSameCall ==
    (Decided /\ Evicted > 0 /\ FirstAssistantIsText) =>
        /\ StartsWith(FirstAssistantText(result.processedHistory),
                      contextTruncationNotice)
        /\ NoticeUpdates(result.updatedModifications) >= 1

(* C9: after two consecutive truncating process calls with no new content   *)
(* between them, the text of message 1, block 0 in the prepared history     *)
(* contains the truncation notice exactly once.                             *)
C9_NoDoubleNotice ==
    (Decided /\ call.consecutiveEvictions >= 2 /\ FirstAssistantIsText) =>
        CountAtom(FirstAssistantText(result.processedHistory),
                  contextTruncationNotice) = 1

\* the second of two evicting calls on the same history
C9_Witness ==
    /\ Decided /\ call.consecutiveEvictions = 2 /\ FirstAssistantIsText
    /\ StartsWith(FirstAssistantText(result.processedHistory),
                  contextTruncationNotice)

(* C10: when truncation is triggered on a history of at most 2 messages,    *)
(* process reports wasTruncated = true but evicts nothing and adds no       *)
(* notice: the prepared history and the log are what they would be without  *)
(* truncation, and if the log did not otherwise change nothing is stored.   *)
C10_NothingToEvict ==
    ( /\ Decided
      /\ call.previousRequestTokenCount > call.maxTokens
      /\ RawLen <= 2 )
    => /\ result.wasTruncated
       /\ result.processedHistory = call.historyAfterOptimizations
       /\ result.updatedModifications = call.optimizedModifications
       /\ NoticeUpdates(result.updatedModifications)
              = NoticeUpdates(call.modificationsBefore)
       /\ (call.optimizedModifications = call.modificationsBefore =>
              call.saves = 0 /\ contextHistoryUpdates = call.modificationsBefore)

\* the first pair alone, above the budget, nothing to elide
C10_Witness ==
    /\ Decided
    /\ call.previousRequestTokenCount > call.maxTokens
    /\ RawLen = 2
    /\ result.wasTruncated
    /\ call.saves = 0

(* C11: when the budget left after the reserved response tokens and the     *)
(* buffer is zero or negative, process is a no-op whatever the previous     *)
(* count and the history: it returns the raw history, the unchanged live    *)
(* log, the estimate of the raw history and wasTruncated = false, records   *)
(* no elision update and issues no store.                                   *)
C11_BudgetUnderflowNoOp ==
    (call.op = "process" /\ call.maxTokens <= 0) =>
        /\ result.kind = "returned"
        /\ result.processedHistory = rawApiConversationHistory
        /\ result.updatedModifications = call.modificationsBefore
        /\ result.tokensUsed = calculateTokens(rawApiConversationHistory)
        /\ ~result.wasTruncated
        /\ contextHistoryUpdates = call.modificationsBefore
        /\ call.saves = 0

\* an underflow call above the budget on a history with something to elide
C11_Witness ==
    /\ Returned
    /\ call.maxTokens <= 0
    /\ call.previousRequestTokenCount > call.maxTokens
    /\ RawLen > 2
    /\ call.optimizedModifications # call.modificationsBefore
    /\ result.processedHistory = rawApiConversationHistory

\* the final log of the last process call, recomputed from what the call saw
FinalModificationsOfCall ==
    applyTruncation(call.historyAfterOptimizations, call.optimizedModifications,
                    call.maxTokens, call.previousRequestTokenCount,
                    truncationPercentage, now).updatedModifications

(* C12: with a positive budget, process issues one store, of the final log, *)
(* and replaces the live log by it when the final log differs from the live *)
(* log at the start of the call; when they are equal it issues no store and *)
(* leaves the live log as it was.                                           *)
C12_StoreIffLogChanged ==
    (call.op = "process" /\ call.maxTokens > 0) =>
        IF FinalModificationsOfCall # call.modificationsBefore
        THEN /\ call.saves = 1
             /\ call.stored = FinalModificationsOfCall
             /\ contextHistoryUpdates = FinalModificationsOfCall
        ELSE /\ call.saves = 0
             /\ contextHistoryUpdates = call.modificationsBefore

\* a call that both elides and evicts, on a log that already had updates
C12_Witness ==
    /\ Decided
    /\ call.modificationsBefore # EmptyHistoryUpdates
    /\ call.optimizedModifications # call.modificationsBefore
    /\ call.messagesToRemove > 0
    /\ call.saves = 1
    /\ call.stored = contextHistoryUpdates
    /\ contextHistoryUpdates # call.modificationsBefore

\* the block an occurrence points at, in a history
BlockAt(history, occurrence) ==
    history[occurrence.messageIndex + 1].content[occurrence.blockIndex + 1]

\* the occurrences of a list that are mentions inside the block of occurrence o
MentionsInBlockOf(occurrences, o) ==
    SelectSeq(occurrences,
              LAMBDA x : /\ x.messageIndex = o.messageIndex
                         /\ x.blockIndex = o.blockIndex
                         /\ x.fullMatch # "")

\* the log holds a replace_content update for path at the block of occurrence o
HasReplacementFor(modifications, o) ==
    LET updates == UpdatesAt(modifications, o.messageIndex, o.blockIndex)
    IN  \E k \in 1..Len(updates) :
            /\ updates[k].updateType = "replace_content"
            /\ updates[k].metadata.originalPath = o.filePath

\* for the occurrences of one path, in order: the last is as in the raw
\* history, the earlier ones read as the duplicate-read notice, and the log
\* has a replacement for each earlier one and none for the last
KeepsLastOccurrence(occurrences) ==
    LET last == occurrences[Len(occurrences)]
        earlier == SubSeq(occurrences, 1, Len(occurrences) - 1)
        prepared == result.processedHistory
    IN  /\ IF last.fullMatch = ""
           THEN BlockAt(prepared, last) = BlockAt(rawApiConversationHistory, last)
           ELSE CountAtom(BlockAt(prepared, last).text, last.fullMatch) = 1
        /\ \A i \in 1..Len(earlier) :
              LET o == earlier[i]
              IN  /\ IF o.fullMatch = ""
                     THEN BlockAt(prepared, o).text = <<duplicateFileReadNotice>>
                     ELSE CountAtom(BlockAt(prepared, o).text,
                                    MentionReplacement(o.filePath))
                              = Len(MentionsInBlockOf(earlier, o))
                  /\ HasReplacementFor(contextHistoryUpdates, o)
        /\ MentionsInBlockOf(earlier, last) = <<>> =>
              ~HasReplacementFor(contextHistoryUpdates, last)

(* C13: for any file path read k >= 2 times in the raw history, as tool     *)
(* results, as mentions or as a mix, after a process call that evicts       *)
(* nothing the last occurrence is unmodified in the prepared history, each  *)
(* earlier occurrence has its content replaced by the duplicate-read        *)
(* notice, and the log holds a replace_content update for each earlier      *)
(* occurrence and none for the last.                                        *)
C13_ElisionKeepsLast ==
    (Decided /\ Evicted = 0) =>
        LET fileReads == findDuplicateFileReads(rawApiConversationHistory)
        IN  \A k \in 1..Len(fileReads) :
                Len(fileReads[k]) >= 2 => KeepsLastOccurrence(fileReads[k])

\* no file path is read more than once in the raw history
NoDuplicateReads ==
    LET fileReads == findDuplicateFileReads(rawApiConversationHistory)
    IN  \A k \in 1..Len(fileReads) : Len(fileReads[k]) <= 1

(* C14: for a raw history, the empty one included, in which no file path    *)
(* occurs more than once, from an empty live log and with the previous      *)
(* count not above the budget, process returns the raw history as the       *)
(* prepared history, wasTruncated = false and an empty log, and issues no   *)
(* store.                                                                   *)
C14_NothingToDo ==
    ( /\ call.op = "process"
      /\ call.modificationsBefore = EmptyHistoryUpdates
      /\ NoDuplicateReads
      /\ call.previousRequestTokenCount <= call.maxTokens )
    => /\ result.kind = "returned"
       /\ result.processedHistory = rawApiConversationHistory
       /\ ~result.wasTruncated
       /\ result.updatedModifications = EmptyHistoryUpdates
       /\ contextHistoryUpdates = EmptyHistoryUpdates
       /\ call.saves = 0

\* a history with a single file read, at the budget
C14_Witness ==
    /\ Decided
    /\ call.modificationsBefore = EmptyHistoryUpdates
    /\ NoDuplicateReads
    /\ Len(findDuplicateFileReads(rawApiConversationHistory)) = 1
    /\ RawLen >= 3
    /\ call.previousRequestTokenCount = call.maxTokens
    /\ result.processedHistory = rawApiConversationHistory
    /\ call.saves = 0

\* the last operation was a rollback
RolledBack == call.op = "rollback"

\* the (message, block) positions two logs know of
MessageKeys(before, after) == DOMAIN before \cup DOMAIN after
BlockKeys(before, after, m) ==
    (IF m \in DOMAIN before THEN DOMAIN before[m].blocks ELSE {})
    \cup (IF m \in DOMAIN after THEN DOMAIN after[m].blocks ELSE {})

\* the updates of a list made at or before an instant, in their order
UpTo(updates, instant) == SelectSeq(updates, LAMBDA u : u.timestamp <= instant)

(* C15: rollbackAtTimestamp(t) leaves in the live log, for every message    *)
(* and block, exactly the updates whose timestamp is at most t, in their    *)
(* original order (an update made at t is kept); a block left without       *)
(* updates is removed from its entry, an entry left without blocks is       *)
(* removed, and every remaining entry keeps its editType.                   *)
C15_RollbackKeepsUpTo ==
    RolledBack =>
        LET before == call.modificationsBefore
            after == contextHistoryUpdates
        IN  /\ \A m \in MessageKeys(before, after) :
                  \A b \in BlockKeys(before, after, m) :
                      UpdatesAt(after, m, b)
                          = UpTo(UpdatesAt(before, m, b), call.timestamp)
            /\ \A m \in DOMAIN after :
                  /\ DOMAIN after[m].blocks # {}
                  /\ \A b \in DOMAIN after[m].blocks : after[m].blocks[b] # <<>>
                  /\ m \in DOMAIN before
                  /\ after[m].editType = before[m].editType

\* a block keeps the update made at t and loses a later one, and another
\* entry disappears
C15_Witness ==
    /\ RolledBack
    /\ \E m \in DOMAIN contextHistoryUpdates :
          \E b \in DOMAIN contextHistoryUpdates[m].blocks :
              /\ Len(call.modificationsBefore[m].blocks[b])
                     > Len(contextHistoryUpdates[m].blocks[b])
              /\ Last(contextHistoryUpdates[m].blocks[b]).timestamp = call.timestamp
    /\ \E m \in DOMAIN call.modificationsBefore : m \notin DOMAIN contextHistoryUpdates

\* some update of a log was made after an instant
HasUpdateAfter(modifications, instant) ==
    \E m \in DOMAIN modifications :
        \E b \in DOMAIN modifications[m].blocks :
            \E k \in 1..Len(modifications[m].blocks[b]) :
                modifications[m].blocks[b][k].timestamp > instant

(* C16: rollbackAtTimestamp(t) issues one store, of the rolled-back log,    *)
(* when it removed something, and issues none and leaves the live log as it *)
(* was when every update has a timestamp of at most t.                      *)
C16_RollbackStoresIffChanged ==
    RolledBack =>
        IF HasUpdateAfter(call.modificationsBefore, call.timestamp)
        THEN /\ call.saves = 1
             /\ call.stored = contextHistoryUpdates
             /\ contextHistoryUpdates # call.modificationsBefore
        ELSE /\ call.saves = 0
             /\ contextHistoryUpdates = call.modificationsBefore

\* a rollback that shortens a block list and removes no key
C16_Witness ==
    /\ RolledBack
    /\ call.saves = 1
    /\ contextHistoryUpdates # EmptyHistoryUpdates
    /\ DOMAIN contextHistoryUpdates = DOMAIN call.modificationsBefore

\* every update of log a is an update of log b at the same message and block
SubLog(a, b) ==
    \A m \in DOMAIN a :
        \A blk \in DOMAIN a[m].blocks :
            \A k \in 1..Len(a[m].blocks[blk]) :
                \E j \in 1..Len(UpdatesAt(b, m, blk)) :
                    UpdatesAt(b, m, blk)[j] = a[m].blocks[blk][k]

\* the instants a rollback can name
Instants == 0..(now + 1)

(* C17: rollback is monotone in its argument: from the log a rollback       *)
(* started from, for all t1 <= t2 every update left by rolling back to t1   *)
(* is left by rolling back to t2, and the rollback that was made left what  *)
(* the rule gives for its own instant.                                      *)
C17_RollbackMonotone ==
    RolledBack =>
        /\ contextHistoryUpdates
               = newModifications(call.modificationsBefore, call.timestamp)
        /\ \A t1 \in Instants : \A t2 \in Instants :
              t1 <= t2 =>
                  SubLog(newModifications(call.modificationsBefore, t1),
                         newModifications(call.modificationsBefore, t2))

\* a rollback to the middle of a log with updates at two instants
C17_Witness ==
    /\ RolledBack
    /\ call.timestamp = 1
    /\ newModifications(call.modificationsBefore, 0) # contextHistoryUpdates
    /\ contextHistoryUpdates # call.modificationsBefore
    /\ SubLog(contextHistoryUpdates, call.modificationsBefore)

(* C18: checkpoint rollback is exact: after process calls on a raw history, *)
(* calls that evict included, rollbackAtTimestamp(t) leaves the live log    *)
(* equal to the live log as it stood at instant t, right after the last     *)
(* process call completed at or before t.                                   *)
C18_RollbackExact ==
    RolledBack => contextHistoryUpdates = checkpoints[call.timestamp + 1]

\* the last operation was an application of the live log
Applied == call.op = "apply"

(* C19: the edit applier is idempotent: for every history and every log,    *)
(* any mix of replace_content, add_truncation_notice and other updates,     *)
(* valid or not, applying the log to the applied history gives the applied  *)
(* history again; the truncation notice is never prefixed twice.            *)
C19_ApplierIdempotent ==
    Applied =>
        LET once == result.processedHistory
        IN  /\ applyContextHistoryUpdates(once) = once
            /\ applyModificationsToHistory(once, contextHistoryUpdates) = once
            /\ applyModificationsToHistory(rawApiConversationHistory,
                                           contextHistoryUpdates) = once
            /\ \A m \in 1..Len(once) : \A b \in 1..Len(once[m].content) :
                  once[m].content[b].type = "text" =>
                      CountAtom(once[m].content[b].text, contextTruncationNotice) <= 1

\* a block whose list is a replacement followed by a notice, notice applied
C19_Witness ==
    /\ Applied
    /\ result.processedHistory # rawApiConversationHistory
    /\ \E m \in DOMAIN contextHistoryUpdates :
          \E b \in DOMAIN contextHistoryUpdates[m].blocks :
              LET updates == contextHistoryUpdates[m].blocks[b]
              IN  /\ Len(updates) = 2
                  /\ updates[1].updateType = "replace_content"
                  /\ updates[2].updateType = "add_truncation_notice"
                  /\ m < RawLen
                  /\ b < Len(rawApiConversationHistory[m + 1].content)
                  /\ StartsWith(result.processedHistory[m + 1].content[b + 1].text,
                                contextTruncationNotice)

(* C20: no process call, whether it does nothing, elides, truncates or      *)
(* returns on a budget underflow, modifies the raw history the caller       *)
(* passed: after the call it has the same messages, blocks and block texts. *)
C20_RawHistoryUntouched ==
    call.op = "process" => rawApiConversationHistory = call.rawHistory

\* a call that elided and evicted, so that the prepared history differs
C20_Witness ==
    /\ Decided
    /\ call.optimizedModifications # call.modificationsBefore
    /\ call.messagesToRemove > 0
    /\ call.historyAfterOptimizations # call.rawHistory
    /\ result.processedHistory # call.rawHistory
    /\ rawApiConversationHistory = call.rawHistory

\* the raw index of the message at index i of the prepared history, when the
\* messages missing are those of the range [2, 2 + Evicted)
RawIndexOf(i) == IF i < 2 THEN i ELSE i + Evicted

\* the prepared message is the raw one but for the text of text blocks that
\* the log the call applied has updates for
SameButEditedText(prepared, raw, rawIndex) ==
    /\ prepared.role = raw.role
    /\ Len(prepared.content) = Len(raw.content)
    /\ \A b \in 1..Len(raw.content) :
          \/ prepared.content[b] = raw.content[b]
          \/ /\ raw.content[b].type = "text"
             /\ prepared.content[b].type = "text"
             /\ UpdatesAt(call.optimizedModifications, rawIndex, b - 1) # <<>>

(* C21: process never re-orders or restructures messages: the prepared      *)
(* history is the raw history without one contiguous evicted range, in the  *)
(* original order, every message with its role and its number of blocks,    *)
(* and the only content that differs is the text of text blocks that an     *)
(* update targets.                                                          *)
C21_NoReorder ==
    Returned =>
        /\ Evicted >= 0
        /\ Evicted > 0 => RawLen > 2
        /\ \A i \in 0..(Len(result.processedHistory) - 1) :
              /\ RawIndexOf(i) < RawLen
              /\ SameButEditedText(result.processedHistory[i + 1],
                                   rawApiConversationHistory[RawIndexOf(i) + 1],
                                   RawIndexOf(i))

\* an eviction that leaves a tail, with an edited block in the tail
C21_Witness ==
    /\ Decided
    /\ Evicted > 0
    /\ Len(result.processedHistory) > 2
    /\ \E i \in 2..(Len(result.processedHistory) - 1) :
          result.processedHistory[i + 1] # rawApiConversationHistory[RawIndexOf(i) + 1]

(* C22: a failure of the persistence store, while resolving or creating the *)
(* task directory or while writing the file, is never propagated to the     *)
(* caller of process or of rollbackAtTimestamp: the call completes          *)
(* normally, and the live log holds the new log.                            *)
C22_StoreFailureSwallowed ==
    call.op \in {"process", "rollback"} =>
        /\ result.kind = "returned"
        /\ call.saves = 1 => contextHistoryUpdates = call.stored

\* C23: updateModelInfo replaces the stored descriptor exactly when the new
\* one differs structurally from the stored one, with undefined and null
\* different from each other and from every record; a structurally equal
\* descriptor leaves the stored one as it was, and the edit log, live and
\* stored, is the same after the call as before it.
C23_UpdateModelIffDifferent ==
    call.op = "updateModel" =>
        /\ call.replaced <=> call.newModelInfo # call.modelInfoBefore
        /\ currentModelInfo = (IF call.replaced THEN call.newModelInfo
                                                ELSE call.modelInfoBefore)
        /\ contextHistoryUpdates = call.modificationsBefore
        /\ disk = call.stored

C23_Witness ==
    /\ call.op = "updateModel"
    /\ call.modelInfoBefore = UndefinedModelInfo
    /\ call.newModelInfo = NullModelInfo
    /\ call.replaced
    /\ currentModelInfo = NullModelInfo
    /\ contextHistoryUpdates # EmptyHistoryUpdates

IsNotice(update) == update.updateType = "add_truncation_notice"

NoAdjacentNotices(modifications) ==
    \A messageIndex \in DOMAIN modifications :
        \A blockIndex \in DOMAIN modifications[messageIndex].blocks :
            LET updates == modifications[messageIndex].blocks[blockIndex]
            IN  \A i \in 1..(Len(updates) - 1) :
                    ~(IsNotice(updates[i]) /\ IsNotice(updates[i + 1]))

\* the list of (message 1, block 0) ends with a notice
EndsWithNotice(modifications) ==
    LET updates == UpdatesAt(modifications, 1, 0)
    IN  IF updates = <<>> THEN FALSE ELSE IsNotice(Last(updates))

\* C24: a truncating process call appends a notice to the list of (message 1,
\* block 0) only when the latest update of that list is not already a notice:
\* a list that ends with a notice is left as it is, any other list grows by
\* at most one update, a notice stamped with the call's instant. No list of
\* the log ever holds two notices next to each other.
C24_NoAdjacentNotices ==
    /\ NoAdjacentNotices(contextHistoryUpdates)
    /\ (Decided /\ result.wasTruncated) =>
          LET before == UpdatesAt(call.optimizedModifications, 1, 0)
              after == UpdatesAt(result.updatedModifications, 1, 0)
          IN  IF EndsWithNotice(call.optimizedModifications)
              THEN after = before
              ELSE \/ after = before
                   \/ after = Append(before,
                                     ContextUpdate(call.timestamp, "add_truncation_notice",
                                                   FALSE, <<>>, NoMetadata))

C24_Witness ==
    /\ Decided
    /\ result.wasTruncated
    /\ calls = 2
    /\ EndsWithNotice(call.optimizedModifications)
    /\ NoticeUpdates(result.updatedModifications) = 1

\* the message at index 1 of the history handed to the truncation is not an
\* assistant message
FirstAssistantSlotNotAssistant ==
    /\ Len(call.historyAfterOptimizations) > firstAssistantMessageIndex
    /\ call.historyAfterOptimizations[firstAssistantMessageIndex + 1].role # "assistant"

\* C25: when the message at index 1 of the history before eviction is not an
\* assistant message, a truncating process call adds no notice update, whether
\* or not the log already holds an entry for index 1: the list of (message 1,
\* block 0) is the one the log had before the truncation. The eviction still
\* takes place: the prepared history is the first pair and the tail.
C25_NoNoticeOnNonAssistant ==
    (Decided /\ result.wasTruncated /\ FirstAssistantSlotNotAssistant) =>
        /\ UpdatesAt(result.updatedModifications, 1, 0)
               = UpdatesAt(call.optimizedModifications, 1, 0)
        /\ PrefixAndSuffixKept(call.messagesToRemove)

\* block 0 of the message at index 1 exists and is a text block
NoticeTargetIsText(history) ==
    /\ Len(history) > firstAssistantMessageIndex
    /\ Len(history[firstAssistantMessageIndex + 1].content) > 0
    /\ history[firstAssistantMessageIndex + 1].content[1].type = "text"

\* C26: every notice update a process call adds targets a text block: when
\* the returned log holds more notice updates on (message 1, block 0) than
\* the log had before the truncation, block 0 of message 1 exists and is a
\* text block; on an absent block or an image, tool_use or tool_result block
\* no notice update is recorded.
C26_NoticeOnlyOnTextBlock ==
    (/\ Decided
     /\ result.wasTruncated
     /\ NoticeUpdates(result.updatedModifications)
            > NoticeUpdates(call.optimizedModifications)) =>
        NoticeTargetIsText(call.historyAfterOptimizations)

\* every entry of a log names the role of the message of a history that sits
\* at the entry's index
EditTypesMatch(modifications, history) ==
    \A messageIndex \in DOMAIN modifications :
        /\ messageIndex < Len(history)
        /\ modifications[messageIndex].editType = history[messageIndex + 1].role

\* C27: the editType of every entry a process call creates is the role of the
\* raw message at the entry's index at that moment, and after the eviction
\* and the index shift the editType of every entry of the returned log is
\* still the role of the message the entry addresses in the prepared history.
C27_EditTypeIsRole ==
    Returned =>
        /\ \A messageIndex \in DOMAIN call.optimizedModifications :
              messageIndex \notin DOMAIN call.modificationsBefore =>
                  /\ messageIndex < Len(call.rawHistory)
                  /\ call.optimizedModifications[messageIndex].editType
                         = call.rawHistory[messageIndex + 1].role
        /\ EditTypesMatch(result.updatedModifications, result.processedHistory)

C27_Witness ==
    /\ Decided
    /\ result.wasTruncated
    /\ call.messagesToRemove = 2
    /\ \E messageIndex \in DOMAIN result.updatedModifications :
          /\ messageIndex >= startIndexToConsider
          /\ result.updatedModifications[messageIndex].editType = "user"
          /\ (messageIndex + call.messagesToRemove) \in DOMAIN call.optimizedModifications
          /\ (messageIndex + call.messagesToRemove) \notin DOMAIN call.modificationsBefore

\* a log cut down to the latest update of every block list
LatestOnly(modifications) ==
    [m \in DOMAIN modifications |->
        [modifications[m] EXCEPT !.blocks =
            [b \in DOMAIN @ |-> IF @[b] = <<>> THEN <<>> ELSE <<Last(@[b])>>]]]

\* C28: the applier uses only the latest update of every (message, block)
\* list: the projection of a history under a log is the projection under the
\* log cut down to the latest update of each list, so earlier updates change
\* nothing in the output; they stay in the log, which the applier leaves as
\* it was.
C28_OnlyLatestUpdateApplied ==
    Applied =>
        /\ result.processedHistory
               = applyModificationsToHistory(rawApiConversationHistory,
                                             LatestOnly(call.modificationsBefore))
        /\ contextHistoryUpdates = call.modificationsBefore

\* a text block whose list is a replacement followed by an update of an
\* unknown kind: the block is unchanged and the list still holds both
C28_Witness ==
    /\ Applied
    /\ \E m \in DOMAIN contextHistoryUpdates :
          \E b \in DOMAIN contextHistoryUpdates[m].blocks :
              LET updates == contextHistoryUpdates[m].blocks[b]
              IN  /\ Len(updates) = 2
                  /\ updates[1].updateType = "replace_content"
                  /\ updates[1].isString
                  /\ updates[2].updateType = "other"
                  /\ m < RawLen
                  /\ b < Len(rawApiConversationHistory[m + 1].content)
                  /\ rawApiConversationHistory[m + 1].content[b + 1].type = "text"
                  /\ result.processedHistory[m + 1].content[b + 1]
                         = rawApiConversationHistory[m + 1].content[b + 1]

\* an update fits a block: a replacement with a string payload or a notice,
\* on a text block
Fits(update, block) ==
    /\ block.type = "text"
    /\ \/ update.updateType = "replace_content" /\ update.isString
       \/ update.updateType = "add_truncation_notice"

\* what a fitting update makes of a text block
EffectOf(update, block) ==
    IF update.updateType = "replace_content"
    THEN [block EXCEPT !.text = update.content]
    ELSE [block EXCEPT !.text = <<contextTruncationNotice>> \o @]

\* the latest update of the list at (messageIndex, blockIndex) is skipped on a
\* history: the position is out of range or the update does not fit the block
SkippedOn(history, modifications, messageIndex, blockIndex) ==
    LET updates == UpdatesAt(modifications, messageIndex, blockIndex)
    IN  /\ updates # <<>>
        /\ \/ messageIndex >= Len(history)
           \/ blockIndex >= Len(history[messageIndex + 1].content)
           \/ ~Fits(Last(updates), history[messageIndex + 1].content[blockIndex + 1])

\* the only failure of a process call is a failure of the store, and every
\* block of the prepared history is the raw block when the latest update of
\* its list is missing or skipped, and the raw block under that update when
\* it fits
SkippedEditsChangeNothing ==
    /\ (call.op = "process" /\ result.kind = "threw") => call.saves = 1
    /\ Returned =>
          /\ Len(result.processedHistory) = RawLen - call.messagesToRemove
          /\ \A i \in 0..(Len(result.processedHistory) - 1) :
                LET rawMessage == rawApiConversationHistory[RawIndexOf(i) + 1]
                    prepared == result.processedHistory[i + 1]
                IN  /\ Len(prepared.content) = Len(rawMessage.content)
                    /\ \A b \in 1..Len(rawMessage.content) :
                          LET updates == UpdatesAt(call.optimizedModifications,
                                                   RawIndexOf(i), b - 1)
                          IN  prepared.content[b] =
                                  IF \/ updates = <<>>
                                     \/ ~Fits(Last(updates), rawMessage.content[b])
                                  THEN rawMessage.content[b]
                                  ELSE EffectOf(Last(updates), rawMessage.content[b])

\* the lists whose latest update the call skipped are still in the returned
\* log, under the same key
SkippedEditsKept ==
    \A messageIndex \in DOMAIN call.modificationsBefore :
        \A blockIndex \in DOMAIN call.modificationsBefore[messageIndex].blocks :
            SkippedOn(call.rawHistory, call.modificationsBefore, messageIndex, blockIndex)
                => IsPrefix(UpdatesAt(call.modificationsBefore, messageIndex, blockIndex),
                            UpdatesAt(result.updatedModifications, messageIndex, blockIndex))

\* C29 as stated: updates whose message or block index is out of range, or
\* whose kind does not fit the block or the payload type, are skipped without
\* failing process; every other update is applied, the skipped ones change
\* nothing in the prepared history, and they are kept unchanged in the
\* returned log, whatever the call does.
C29_SkippedEditsKeptAlways ==
    /\ SkippedEditsChangeNothing
    /\ Returned => SkippedEditsKept

\* C29, amended: as above, and the skipped updates are kept unchanged in the
\* returned log of a call that evicts nothing; a call that evicts keeps the
\* ones of the first pair under their key and moves the ones past the evicted
\* range down by the number of evicted messages.
C29_SkippedEditsKeptUnlessEvicted ==
    /\ SkippedEditsChangeNothing
    /\ (Returned /\ call.messagesToRemove = 0) => SkippedEditsKept
    /\ (Returned /\ call.messagesToRemove > 0) =>
          \A messageIndex \in DOMAIN call.modificationsBefore :
              \A blockIndex \in DOMAIN call.modificationsBefore[messageIndex].blocks :
                  (/\ SkippedOn(call.rawHistory, call.modificationsBefore,
                                messageIndex, blockIndex)
                   /\ \/ messageIndex < startIndexToConsider
                      \/ messageIndex >= startIndexToConsider + call.messagesToRemove)
                      => IsPrefix(UpdatesAt(call.modificationsBefore, messageIndex, blockIndex),
                                  UpdatesAt(result.updatedModifications,
                                            IF messageIndex < startIndexToConsider
                                            THEN messageIndex
                                            ELSE messageIndex - call.messagesToRemove,
                                            blockIndex))

\* a call that evicts nothing on a log that holds the fitting replacement and
\* an update past the end of the history: the replacement shows, the other
\* update is still in the returned log
C29_Witness ==
    /\ Returned
    /\ call.messagesToRemove = 0
    /\ RawLen >= 2
    /\ result.processedHistory[2].content[2].text = <<"x">>
    /\ \E messageIndex \in DOMAIN call.modificationsBefore :
          /\ messageIndex >= RawLen
          /\ messageIndex \in DOMAIN result.updatedModifications
          /\ result.updatedModifications[messageIndex]
                 = call.modificationsBefore[messageIndex]

\* C30: rollback only moves a block's state back along its append order:
\* after rollbackAtTimestamp(t) the list left for every message and block is
\* a prefix of the list it had before, so no update is removed while one
\* appended after it is kept.
C30_RollbackKeepsPrefix ==
    RolledBack =>
        \A m \in DOMAIN call.modificationsBefore :
            \A b \in DOMAIN call.modificationsBefore[m].blocks :
                IsPrefix(UpdatesAt(contextHistoryUpdates, m, b),
                         UpdatesAt(call.modificationsBefore, m, b))

\* the updates a log holds at (m, b) beyond the ones another log holds there
AddedAt(before, after, m, b) ==
    LET old == UpdatesAt(before, m, b)
        new == UpdatesAt(after, m, b)
    IN  IF Len(new) > Len(old) THEN SubSeq(new, Len(old) + 1, Len(new)) ELSE <<>>

\* the elision updates of a log stamped with an instant, as (message, block,
\* position) triples
ElisionsAt(modifications, instant) ==
    {<<m, b, k>> \in (0..MaxLen) \X (0..MaxBlockIndex) \X (1..(2 * MaxCalls + 2)) :
        /\ k <= Len(UpdatesAt(modifications, m, b))
        /\ UpdatesAt(modifications, m, b)[k].updateType = "replace_content"
        /\ UpdatesAt(modifications, m, b)[k].timestamp = instant}

\* the number of updates a log holds with a timestamp
RECURSIVE CountStamped(_, _)
CountStamped(updates, instant) ==
    IF updates = <<>> THEN 0
    ELSE (IF Head(updates).timestamp = instant THEN 1 ELSE 0)
         + CountStamped(Tail(updates), instant)

\* C31: every update the elider emits within one process call carries one
\* and the same timestamp, the instant of the call; a rollback therefore
\* keeps all or none of the elision updates of a call: of the updates
\* stamped with one instant, every list keeps all of them or none.
C31_ElisionsShareTimestamp ==
    /\ Returned =>
          \A m \in DOMAIN call.optimizedModifications :
              \A b \in DOMAIN call.optimizedModifications[m].blocks :
                  LET added == AddedAt(call.modificationsBefore,
                                       call.optimizedModifications, m, b)
                  IN  \A k \in 1..Len(added) : added[k].timestamp = call.timestamp
    /\ RolledBack =>
          \A instant \in Instants :
              LET kept(m, b) == CountStamped(UpdatesAt(contextHistoryUpdates, m, b), instant)
                  had(m, b) == CountStamped(UpdatesAt(call.modificationsBefore, m, b), instant)
              IN  \/ \A m \in DOMAIN call.modificationsBefore :
                        \A b \in DOMAIN call.modificationsBefore[m].blocks :
                            kept(m, b) = had(m, b)
                  \/ \A m \in DOMAIN call.modificationsBefore :
                        \A b \in DOMAIN call.modificationsBefore[m].blocks :
                            kept(m, b) = 0

\* a rollback between two calls that each elided at two places: the updates
\* of the first call are all kept, those of the second all removed
C31_Witness ==
    /\ RolledBack
    /\ call.timestamp = 1
    /\ Cardinality(ElisionsAt(call.modificationsBefore, 1)) >= 2
    /\ Cardinality(ElisionsAt(call.modificationsBefore, 2)) >= 2
    /\ Cardinality(ElisionsAt(contextHistoryUpdates, 1))
           = Cardinality(ElisionsAt(call.modificationsBefore, 1))
    /\ ElisionsAt(contextHistoryUpdates, 2) = {}

OracleRead == call.op = "oracle"

\* the contextWindow field of the descriptor the oracle was read for, 0 when
\* the descriptor or the field is absent
GivenWindow == IF currentModelInfo.kind = "object" THEN currentModelInfo.contextWindow ELSE 0

\* x is the greatest of a, b and c
GreatestOf(x, a, b, c) == x \in {a, b, c} /\ x >= a /\ x >= b /\ x >= c

\* C32: the budget oracle returns window = 128000 when contextWindow is
\* absent or zero and the given window otherwise; effective_max is window -
\* 27000 for 64000, window - 30000 for 128000, window - 40000 for 200000, and
\* for every other window W the greatest of W - max(W/5, 40000), W/2 and
\* 1000 (all values in tenths of a token).
C32_OraclePolicy ==
    OracleRead =>
        LET W == call.contextWindow
            effective == call.maxAllowedSizeTimes10
        IN  /\ W = IF GivenWindow = 0 THEN 128000 ELSE GivenWindow
            /\ W = 64000 => effective = 10 * (W - 27000)
            /\ W = 128000 => effective = 10 * (W - 30000)
            /\ W = 200000 => effective = 10 * (W - 40000)
            /\ W \notin {64000, 128000, 200000} =>
                  \E buffer \in {2 * W, 10 * 40000} :
                      /\ buffer >= 2 * W
                      /\ buffer >= 10 * 40000
                      /\ GreatestOf(effective, 10 * W - buffer, 5 * W, 10 * 1000)

\* a window just above 200000, where a fifth of the window is the buffer and
\* the result is not a whole number of tokens
C32_Witness ==
    /\ OracleRead
    /\ call.contextWindow = 200001
    /\ call.maxAllowedSizeTimes10 = 1600008

\* C39: for every positive contextWindow W the effective_max the budget
\* oracle returns is strictly positive and never greater than W.
C39_EffectiveMaxWithinWindow ==
    (OracleRead /\ GivenWindow > 0) =>
        /\ call.maxAllowedSizeTimes10 > 0
        /\ call.maxAllowedSizeTimes10 <= 10 * GivenWindow

\* text without a leading truncation notice
WithoutNotice(text) == IF StartsWith(text, contextTruncationNotice) THEN Tail(text) ELSE text

\* a prepared text is what the edits made for a raw block can give: the raw
\* text with some of its mentions replaced by their duplicate-read form, or
\* the duplicate-read notice alone for the content block of a file read, in
\* both cases with or without the truncation notice in front
DerivesFrom(preparedText, rawBlock, isFileReadContent) ==
    LET text == WithoutNotice(preparedText)
    IN  \/ /\ Len(text) = Len(rawBlock.text)
           /\ \A k \in 1..Len(text) :
                 \/ text[k] = rawBlock.text[k]
                 \/ \E p \in Paths : /\ rawBlock.text[k] = Mention(p)
                                     /\ text[k] = MentionReplacement(p)
        \/ isFileReadContent /\ text = <<duplicateFileReadNotice>>

\* block b (from 1) of a message is the content block of a file read
IsFileReadContent(message, b) ==
    /\ b > 1
    /\ message.content[b - 1].type = "text"
    /\ IsToolHeader(message.content[b - 1].text)

\* C33: edits stay attached to their raw message across calls: in every
\* prepared history, also the one of a call that follows an evicting call on
\* the same or an appended-to raw history, the text of every text block is
\* the text of its own raw block under edits made for that block; no edit's
\* text shows on another raw message.
C33_EditsStayAttached ==
    Returned =>
        \A i \in 0..(Len(result.processedHistory) - 1) :
            LET rawMessage == call.rawHistory[RawIndexOf(i) + 1]
                prepared == result.processedHistory[i + 1]
            IN  \A b \in 1..Len(rawMessage.content) :
                    rawMessage.content[b].type = "text" =>
                        DerivesFrom(prepared.content[b].text, rawMessage.content[b],
                                    IsFileReadContent(rawMessage, b))

\* C34: process is idempotent on the edit log: a process call that directly
\* follows a returned process call on the same raw history, with a previous
\* request count not above the budget, appends nothing for occurrences that
\* are already elided: the live log stays what the first call produced and
\* no store is issued.
C34_SecondCallChangesNothing ==
    [][(/\ Returned
        /\ call'.op = "process"
        /\ call'.rawHistory = call.rawHistory
        /\ call'.maxTokens > 0
        /\ call'.previousRequestTokenCount <= call'.maxTokens)
       => (/\ contextHistoryUpdates' = contextHistoryUpdates
           /\ call'.saves = 0)]_vars

\* C35: when the stored log equals the live log and a process or rollback
\* call issues no store or a store that succeeds, the stored log equals the
\* live log after the call; the manager starts with the live log it loaded,
\* so over any sequence of calls whose stores succeed the log last written to
\* or loaded from the store is the live log.
C35_StoredLogIsLiveLog ==
    [][(/\ disk = contextHistoryUpdates
        /\ call'.op \in {"process", "rollback"}
        /\ call'.saved \in {"none", "written"})
       => disk' = contextHistoryUpdates']_vars

\* a rollback that removed updates and stored the shorter log
C35_Witness ==
    /\ RolledBack
    /\ call.saved = "written"
    /\ call.modificationsBefore # contextHistoryUpdates
    /\ contextHistoryUpdates # EmptyHistoryUpdates
    /\ disk = contextHistoryUpdates

\* the file reads of a path in a history as (message, block) places: tool
\* results by the block of their header, mentions by their block
ReadPlaces(history, p, intactOnly) ==
    {<<m, b>> \in (1..Len(history)) \X (1..(MaxBlockIndex + 1)) :
        /\ b <= Len(history[m].content)
        /\ history[m].content[b].type = "text"
        /\ \/ /\ history[m].content[b].text = <<ToolHeader(p)>>
              /\ b < Len(history[m].content)
              /\ history[m].content[b + 1].type = "text"
              /\ intactOnly =>
                     history[m].content[b + 1].text # <<duplicateFileReadNotice>>
           \/ /\ CountAtom(history[m].content[b].text, Mention(p)) > 0
           \/ /\ ~intactOnly
              /\ CountAtom(history[m].content[b].text, MentionReplacement(p)) > 0}

\* C36: file content is never lost entirely: after any process call, with or
\* without eviction, every file path that still has an occurrence in the
\* prepared history, replaced or not, has at least one occurrence there
\* whose content is not replaced by the duplicate-read notice.
C36_FileContentNeverLost ==
    Returned =>
        \A p \in Paths :
            ReadPlaces(result.processedHistory, p, FALSE) # {}
                => ReadPlaces(result.processedHistory, p, TRUE) # {}

\* the prepared history of the last process call is the one application of
\* the returned log to the raw history the call was given
SingleProjection ==
    /\ result.processedHistory
         = applyModificationsToHistory(call.rawHistory, result.updatedModifications)
    /\ call.historyAfterOptimizations
         = applyModificationsToHistory(call.rawHistory, call.optimizedModifications)

(* C38 as stated: whenever a process call evicts nothing, the prepared      *)
(* history it returns is the returned log applied once to the raw history.  *)
C38_SingleProjectionAlways ==
    (Returned /\ call.messagesToRemove = 0) => SingleProjection

(* C38: when the budget is positive and no eviction takes place, the        *)
(* prepared history returned by process equals the returned log applied     *)
(* once to the raw history: applying the live log and then the whole        *)
(* candidate log on top gives what one application of the candidate log to  *)
(* the raw history gives.                                                   *)
C38_SingleProjectionWhenDecided ==
    (Decided /\ call.messagesToRemove = 0) => SingleProjection

\* a call that evicts nothing, whose live log already held a truncation
\* notice and an elision, and whose elider appended to it
C38_Witness ==
    /\ Decided
    /\ call.messagesToRemove = 0
    /\ NoticeUpdates(call.modificationsBefore) > 0
    /\ call.optimizedModifications # call.modificationsBefore
    /\ result.updatedModifications = call.optimizedModifications
    /\ applyModificationsToHistory(call.rawHistory, call.modificationsBefore)
         # call.rawHistory
    /\ result.processedHistory
         # applyModificationsToHistory(call.rawHistory, call.modificationsBefore)

\* the calls that have computed a candidate log and not yet swapped it in
Computing == {id \in DOMAIN inflight.jobs : inflight.jobs[id].pc = "computed"}

(* C37: even when process and rollbackAtTimestamp calls on one manager      *)
(* overlap, a call starting while the store of an earlier call is pending,  *)
(* each call reads, recomputes and swaps the live log with no suspension    *)
(* point in between: a call that has read the live log holds the thread     *)
(* until it has swapped it, and once every started call has swapped, the    *)
(* live log is the log that running the calls one after the other, in the   *)
(* order they started, leaves.                                              *)
C37_OverlapIsSerial ==
    /\ \A id \in Computing : inflight.running = id
    /\ Computing = {} => contextHistoryUpdates = inflight.serial

\* a call that started while the store of an earlier call was pending and
\* changed the live log that the earlier call had changed, stores still
\* pending
C37_Witness ==
    /\ Len(inflight.jobs) = 2
    /\ inflight.jobs[1].changed /\ inflight.jobs[1].pc = "storing"
    /\ inflight.jobs[2].overlapped /\ inflight.jobs[2].changed
    /\ inflight.jobs[2].pc = "storing"
    /\ inflight.jobs[1].op # inflight.jobs[2].op
    /\ contextHistoryUpdates = inflight.serial

====
